---------------------------- MODULE Spec2Model ----------------------------
(* HumanScript compiler: the lexer, the parser, the semantic analyzer       *)
(* (symbol table, type rules, in-place annotation of the tree) and the     *)
(* code generator.                                                         *)
EXTENDS Naturals, Sequences, FiniteSets, TLC

VARIABLES
    program,        \* ProgramNode handed to analyze/generate, annotated in place
    symbol_table,   \* SemanticAnalyzer::symbol_table (name -> declared type)
    idx,            \* position of analyze's loop over program->statements
    pc,             \* where the pipeline of main() stands
    error,          \* the std::runtime_error in flight, or none
    declared_log,   \* the "Declared variable" lines written by the analyzer
    output,         \* text returned by CodeGenerator::generate
    call,           \* arguments of a direct call of a helper or of analyze
    ret,            \* what that call returned
    source_code,    \* Lexer::source_code, a sequence of characters
    tokens_list,    \* Parser::tokens_list, as Lexer::tokenize returned it
    current_token_idx, \* Parser::current_token_idx (0-based, as in the code)
    diagnostics,    \* the lines the lexer wrote to std::cerr
    current_pos     \* Lexer::current_pos when tokenize returned

(* The state of the lexer and the parser. *)
front_end == <<source_code, tokens_list, current_token_idx, diagnostics, current_pos>>

vars == <<program, symbol_table, idx, pc, error, declared_log, output, call, ret,
          source_code, tokens_list, current_token_idx, diagnostics, current_pos>>

-----------------------------------------------------------------------------
(* enum class HScriptType *)
HScriptType == {"NUMBER", "LNUMBER", "TEXT", "LOGIC", "RIEL", "VOID", "UNKNOWN"}

(* The token types an operator token of a BinaryOpNode can carry; LT stands *)
(* for every token type that is neither PLUS nor QUESTION_EQUALS.           *)
OpTokenType == {"PLUS", "QUESTION_EQUALS", "LT"}

IsNumericType(t) == t \in {"NUMBER", "LNUMBER", "RIEL"}

(* A plausible slip: every numeric value accepted by every numeric target. *)
is_assignable_symmetric(target_type, value_type) ==
    \/ target_type = value_type
    \/ IsNumericType(target_type) /\ IsNumericType(value_type)

(* A plausible slip: a logic value accepted by the integer targets, as the *)
(* target language converts bool to int.                                   *)
is_assignable_logic(target_type, value_type) ==
    \/ target_type = value_type
    \/ target_type = "LNUMBER" /\ value_type = "NUMBER"
    \/ target_type = "RIEL" /\ value_type \in {"NUMBER", "LNUMBER"}
    \/ target_type \in {"NUMBER", "LNUMBER"} /\ value_type = "LOGIC"

is_assignable(target_type, value_type) ==
    IF target_type = value_type THEN TRUE
    ELSE IF target_type = "LNUMBER" /\ value_type = "NUMBER" THEN TRUE
    ELSE IF target_type = "RIEL" /\ value_type \in {"NUMBER", "LNUMBER"} THEN TRUE
    ELSE FALSE

(* A plausible slip: the mixed text/other branches of '+' left out. *)
get_binary_op_result_type_nomixed(left_type, right_type, op_token_type) ==
    IF op_token_type = "PLUS"
    THEN IF IsNumericType(left_type) /\ IsNumericType(right_type)
         THEN IF left_type = "RIEL" \/ right_type = "RIEL" THEN "RIEL"
              ELSE IF left_type = "LNUMBER" \/ right_type = "LNUMBER" THEN "LNUMBER"
              ELSE "NUMBER"
         ELSE IF left_type = "TEXT" /\ right_type = "TEXT" THEN "TEXT"
         ELSE "UNKNOWN"
    ELSE IF op_token_type = "QUESTION_EQUALS"
    THEN IF left_type = right_type /\ left_type # "VOID" /\ left_type # "UNKNOWN"
         THEN "LOGIC"
         ELSE IF IsNumericType(left_type) /\ IsNumericType(right_type) THEN "LOGIC"
         ELSE "UNKNOWN"
    ELSE "UNKNOWN"

(* A plausible slip: '?=' accepted for any two operand types. *)
get_binary_op_result_type_anycmp(left_type, right_type, op_token_type) ==
    IF op_token_type = "PLUS"
    THEN IF IsNumericType(left_type) /\ IsNumericType(right_type)
         THEN IF left_type = "RIEL" \/ right_type = "RIEL" THEN "RIEL"
              ELSE IF left_type = "LNUMBER" \/ right_type = "LNUMBER" THEN "LNUMBER"
              ELSE "NUMBER"
         ELSE IF left_type = "TEXT" /\ right_type = "TEXT" THEN "TEXT"
         ELSE IF left_type = "TEXT" /\ right_type # "VOID" /\ right_type # "UNKNOWN"
         THEN "TEXT"
         ELSE IF right_type = "TEXT" /\ left_type # "VOID" /\ left_type # "UNKNOWN"
         THEN "TEXT"
         ELSE "UNKNOWN"
    ELSE IF op_token_type = "QUESTION_EQUALS"
    THEN "LOGIC"
    ELSE "UNKNOWN"

get_binary_op_result_type(left_type, right_type, op_token_type) ==
    IF op_token_type = "PLUS"
    THEN IF IsNumericType(left_type) /\ IsNumericType(right_type)
         THEN IF left_type = "RIEL" \/ right_type = "RIEL" THEN "RIEL"
              ELSE IF left_type = "LNUMBER" \/ right_type = "LNUMBER" THEN "LNUMBER"
              ELSE "NUMBER"
         ELSE IF left_type = "TEXT" /\ right_type = "TEXT" THEN "TEXT"
         ELSE IF left_type = "TEXT" /\ right_type # "VOID" /\ right_type # "UNKNOWN"
         THEN "TEXT"
         ELSE IF right_type = "TEXT" /\ left_type # "VOID" /\ left_type # "UNKNOWN"
         THEN "TEXT"
         ELSE "UNKNOWN"
    ELSE IF op_token_type = "QUESTION_EQUALS"
    THEN IF left_type = right_type /\ left_type # "VOID" /\ left_type # "UNKNOWN"
         THEN "LOGIC"
         ELSE IF IsNumericType(left_type) /\ IsNumericType(right_type) THEN "LOGIC"
         ELSE "UNKNOWN"
    ELSE "UNKNOWN"

-----------------------------------------------------------------------------
(* ast.h: expression nodes. A literal's constructor sets its tag; an        *)
(* identifier and a binary operation start UNKNOWN.                         *)
IntegerLiteralNode(val) ==
    [node |-> "IntegerLiteral", value |-> val, expr_type |-> "LNUMBER"]
DoubleLiteralNode(val) ==
    [node |-> "DoubleLiteral", value |-> val, expr_type |-> "RIEL"]
StringLiteralNode(val) ==
    [node |-> "StringLiteral", value |-> val, expr_type |-> "TEXT"]
BooleanLiteralNode(val) ==
    [node |-> "BooleanLiteral", value |-> val, expr_type |-> "LOGIC"]
IdentifierNode(n) ==
    [node |-> "Identifier", name |-> n, expr_type |-> "UNKNOWN"]
BinaryOpNode(l, op, r) ==
    [node |-> "BinaryOp", left |-> l, op_token |-> op, right |-> r,
     expr_type |-> "UNKNOWN"]

(* ast.h: statement nodes; NullStatement is the nullptr else_branch. *)
NullStatement == [stmt |-> "null"]
VariableDeclarationNode(type, name, expr) ==
    [stmt |-> "VariableDeclaration", var_type |-> type,
     identifier_name |-> name, expression |-> expr]
SaysStatementNode(expr) == [stmt |-> "SaysStatement", expression |-> expr]
IfStatementNode(cond, then_stmt, else_stmt) ==
    [stmt |-> "IfStatement", condition |-> cond, then_branch |-> then_stmt,
     else_branch |-> else_stmt]
BlockStatementNode(stmts) == [stmt |-> "BlockStatement", statements |-> stmts]
ProgramNode(uses, stmts) == [use_declarations |-> uses, statements |-> stmts]

(* semantic_analyzer.h: a symbol table entry and the table operations used. *)
Symbol(n, t) == [name |-> n, type |-> t, is_initialized |-> TRUE]
EmptyTable == [n \in {} |-> Symbol("", "UNKNOWN")]
Emplace(table, n, sym) ==
    [k \in DOMAIN table \cup {n} |-> IF k \in DOMAIN table THEN table[k] ELSE sym]

(* The std::runtime_error values the analyzer throws. *)
NoError == [kind |-> "none"]
RedeclarationError(n) == [kind |-> "Redeclaration", name |-> n]
UseBeforeDeclarationError(n) == [kind |-> "UseBeforeDeclaration", name |-> n]
TypeMismatchError(n, value_type, target_type) ==
    [kind |-> "TypeMismatch", name |-> n, value_type |-> value_type,
     target_type |-> target_type]
InvalidOperandsError(op, left_type, right_type) ==
    [kind |-> "InvalidOperands", op |-> op, left_type |-> left_type,
     right_type |-> right_type]
IfConditionError(t) == [kind |-> "IfConditionNotLogic", type |-> t]
SaysError == [kind |-> "SaysVoidOrUnknown"]
UnknownStatementError == [kind |-> "UnknownStatement"]
UnknownExpressionError == [kind |-> "UnknownExpression"]

-----------------------------------------------------------------------------
(* SemanticAnalyzer: expression visitors. The result is the node as the     *)
(* visit leaves it and the exception thrown, if any; the type returned is   *)
(* the node's expr_type.                                                    *)
integer_literal_type == "LNUMBER"
double_literal_type == "RIEL"
string_literal_type == "TEXT"
boolean_literal_type == "LOGIC"

(* A plausible slip: an unresolved name typed UNKNOWN instead of throwing. *)
visit_identifier_nothrow(expr, table) ==
    IF expr.name \notin DOMAIN table
    THEN [expr |-> expr, err |-> NoError]
    ELSE [expr |-> [expr EXCEPT !.expr_type = table[expr.name].type],
          err |-> NoError]

visit_identifier(expr, table) ==
    IF expr.name \notin DOMAIN table
    THEN [expr |-> expr, err |-> UseBeforeDeclarationError(expr.name)]
    ELSE [expr |-> [expr EXCEPT !.expr_type = table[expr.name].type],
          err |-> NoError]

(* A plausible slip: the operands' annotations not written back to the tree. *)
visit_binary_op_copies(expr, l, r) ==
    LET t == get_binary_op_result_type(l.expr_type, r.expr_type, expr.op_token)
    IN  [expr |-> [expr EXCEPT !.expr_type = t],
         err |-> IF t = "UNKNOWN"
                 THEN InvalidOperandsError(expr.op_token, l.expr_type, r.expr_type)
                 ELSE NoError]

(* visit_and_get_type of a BinaryOpNode once both operands are typed. *)
visit_binary_op(expr, l, r) ==
    LET t == get_binary_op_result_type(l.expr_type, r.expr_type, expr.op_token)
        e == [expr EXCEPT !.left = l, !.right = r, !.expr_type = t]
    IN  [expr |-> e,
         err |-> IF t = "UNKNOWN"
                 THEN InvalidOperandsError(expr.op_token, l.expr_type, r.expr_type)
                 ELSE NoError]

RECURSIVE visit_and_get_type(_, _)
visit_and_get_type(expr, table) ==
    CASE expr.node = "IntegerLiteral" ->
            [expr |-> [expr EXCEPT !.expr_type = integer_literal_type], err |-> NoError]
      [] expr.node = "DoubleLiteral" ->
            [expr |-> [expr EXCEPT !.expr_type = double_literal_type], err |-> NoError]
      [] expr.node = "StringLiteral" ->
            [expr |-> [expr EXCEPT !.expr_type = string_literal_type], err |-> NoError]
      [] expr.node = "BooleanLiteral" ->
            [expr |-> [expr EXCEPT !.expr_type = boolean_literal_type], err |-> NoError]
      [] expr.node = "Identifier" -> visit_identifier(expr, table)
      [] expr.node = "BinaryOp" ->
            LET l == visit_and_get_type(expr.left, table)
            IN  IF l.err # NoError
                THEN [expr |-> [expr EXCEPT !.left = l.expr], err |-> l.err]
                ELSE LET r == visit_and_get_type(expr.right, table)
                     IN  IF r.err # NoError
                         THEN [expr |-> [expr EXCEPT !.left = l.expr, !.right = r.expr],
                               err |-> r.err]
                         ELSE visit_binary_op(expr, l.expr, r.expr)
      [] OTHER -> [expr |-> expr, err |-> UnknownExpressionError]

-----------------------------------------------------------------------------
(* SemanticAnalyzer: statement visitors. The result is the statement as the *)
(* visit leaves it, the symbol table, the declaration log and the exception *)
(* thrown, if any.                                                          *)

(* A plausible slip: the redeclaration check left out. *)
already_declared_unchecked(table, var_name) == FALSE

(* symbol_table.count(var_name) *)
already_declared(table, var_name) == var_name \in DOMAIN table

(* A plausible slip: the entry made with the initializer's inferred type. *)
declare_symbol_inferred(table, stmt, initializer_expr_type) ==
    Emplace(table, stmt.identifier_name,
            Symbol(stmt.identifier_name, initializer_expr_type))

(* symbol_table.emplace(var_name, Symbol(var_name, stmt->var_type)) *)
declare_symbol(table, stmt, initializer_expr_type) ==
    Emplace(table, stmt.identifier_name,
            Symbol(stmt.identifier_name, stmt.var_type))

(* A plausible slip: the initializer analysed before the redeclaration check. *)
visit_variable_declaration_initializer_first(stmt, table, log) ==
    LET r == visit_and_get_type(stmt.expression, table)
        s == [stmt EXCEPT !.expression = r.expr]
    IN  IF r.err # NoError
        THEN [stmt |-> s, table |-> table, log |-> log, err |-> r.err]
        ELSE IF already_declared(table, stmt.identifier_name)
        THEN [stmt |-> s, table |-> table, log |-> log,
              err |-> RedeclarationError(stmt.identifier_name)]
        ELSE IF ~is_assignable(stmt.var_type, r.expr.expr_type)
        THEN [stmt |-> s, table |-> table, log |-> log,
              err |-> TypeMismatchError(stmt.identifier_name,
                                        r.expr.expr_type, stmt.var_type)]
        ELSE [stmt |-> s,
              table |-> declare_symbol(table, stmt, r.expr.expr_type),
              log |-> Append(log, [name |-> stmt.identifier_name,
                                   type |-> stmt.var_type]),
              err |-> NoError]

visit_variable_declaration(stmt, table, log) ==
    IF already_declared(table, stmt.identifier_name)
    THEN [stmt |-> stmt, table |-> table, log |-> log,
          err |-> RedeclarationError(stmt.identifier_name)]
    ELSE LET r == visit_and_get_type(stmt.expression, table)
             s == [stmt EXCEPT !.expression = r.expr]
         IN  IF r.err # NoError
             THEN [stmt |-> s, table |-> table, log |-> log, err |-> r.err]
             ELSE IF ~is_assignable(stmt.var_type, r.expr.expr_type)
             THEN [stmt |-> s, table |-> table, log |-> log,
                   err |-> TypeMismatchError(stmt.identifier_name,
                                             r.expr.expr_type, stmt.var_type)]
             ELSE [stmt |-> s,
                   table |-> declare_symbol(table, stmt, r.expr.expr_type),
                   log |-> Append(log, [name |-> stmt.identifier_name,
                                        type |-> stmt.var_type]),
                   err |-> NoError]

visit_says_statement(stmt, table, log) ==
    LET r == visit_and_get_type(stmt.expression, table)
        s == [stmt EXCEPT !.expression = r.expr]
    IN  IF r.err # NoError
        THEN [stmt |-> s, table |-> table, log |-> log, err |-> r.err]
        ELSE IF r.expr.expr_type \in {"VOID", "UNKNOWN"}
        THEN [stmt |-> s, table |-> table, log |-> log, err |-> SaysError]
        ELSE [stmt |-> s, table |-> table, log |-> log, err |-> NoError]

RECURSIVE visit(_, _, _)
RECURSIVE visit_statements(_, _, _, _)

(* The loop of visit of a BlockStatementNode, from statement i on. *)
visit_statements(stmts, i, table, log) ==
    IF i > Len(stmts)
    THEN [stmts |-> stmts, table |-> table, log |-> log, err |-> NoError]
    ELSE LET r == visit(stmts[i], table, log)
             done == [stmts EXCEPT ![i] = r.stmt]
         IN  IF r.err # NoError
             THEN [stmts |-> done, table |-> r.table, log |-> r.log, err |-> r.err]
             ELSE visit_statements(done, i + 1, r.table, r.log)

visit(stmt, table, log) ==
    CASE stmt.stmt = "VariableDeclaration" ->
            visit_variable_declaration(stmt, table, log)
      [] stmt.stmt = "SaysStatement" -> visit_says_statement(stmt, table, log)
      [] stmt.stmt = "IfStatement" ->
            LET c == visit_and_get_type(stmt.condition, table)
                s0 == [stmt EXCEPT !.condition = c.expr]
            IN  IF c.err # NoError
                THEN [stmt |-> s0, table |-> table, log |-> log, err |-> c.err]
                ELSE IF c.expr.expr_type # "LOGIC"
                THEN [stmt |-> s0, table |-> table, log |-> log,
                      err |-> IfConditionError(c.expr.expr_type)]
                ELSE LET t == visit(stmt.then_branch, table, log)
                         s1 == [s0 EXCEPT !.then_branch = t.stmt]
                     IN  IF t.err # NoError \/ stmt.else_branch = NullStatement
                         THEN [stmt |-> s1, table |-> t.table, log |-> t.log,
                               err |-> t.err]
                         ELSE LET e == visit(stmt.else_branch, t.table, t.log)
                              IN  [stmt |-> [s1 EXCEPT !.else_branch = e.stmt],
                                   table |-> e.table, log |-> e.log, err |-> e.err]
      [] stmt.stmt = "BlockStatement" ->
            LET b == visit_statements(stmt.statements, 1, table, log)
            IN  [stmt |-> [stmt EXCEPT !.statements = b.stmts],
                 table |-> b.table, log |-> b.log, err |-> b.err]
      [] OTHER -> [stmt |-> stmt, table |-> table, log |-> log,
                   err |-> UnknownStatementError]

-----------------------------------------------------------------------------
(* CodeGenerator. Text is a sequence of fragments, one per string appended  *)
(* by the code; a result is the text and the exception thrown, if any.      *)
GenOk(t) == [text |-> t, err |-> NoError]
GenFail(e) == [text |-> <<>>, err |-> e]
GenCat(a, b) ==
    IF a.err # NoError THEN a
    ELSE IF b.err # NoError THEN b
    ELSE GenOk(a.text \o b.text)

UnmappedTypeError == [kind |-> "CannotMapType"]
UnknownStatementGenError == [kind |-> "UnknownStatementNode"]
UnknownExpressionGenError == [kind |-> "UnknownExpressionNode"]
UnsupportedOperatorError(op) == [kind |-> "UnsupportedBinaryOperator", op |-> op]

(* A plausible slip: a switch without the riel case. *)
hscript_type_to_cpp_type_no_riel(type) ==
    CASE type = "NUMBER" -> GenOk(<<"int">>)
      [] type = "LNUMBER" -> GenOk(<<"long long">>)
      [] type = "TEXT" -> GenOk(<<"std::string">>)
      [] type = "LOGIC" -> GenOk(<<"bool">>)
      [] type = "VOID" -> GenOk(<<"void">>)
      [] OTHER -> GenFail(UnmappedTypeError)

hscript_type_to_cpp_type(type) ==
    CASE type = "NUMBER" -> GenOk(<<"int">>)
      [] type = "LNUMBER" -> GenOk(<<"long long">>)
      [] type = "TEXT" -> GenOk(<<"std::string">>)
      [] type = "LOGIC" -> GenOk(<<"bool">>)
      [] type = "RIEL" -> GenOk(<<"double">>)
      [] type = "VOID" -> GenOk(<<"void">>)
      [] OTHER -> GenFail(UnmappedTypeError)

(* std::to_string of a double prints six decimals. *)
SixDigits(m) ==
    <<ToString(m \div 100000), ToString((m \div 10000) % 10),
      ToString((m \div 1000) % 10), ToString((m \div 100) % 10),
      ToString((m \div 10) % 10), ToString(m % 10)>>
DoubleToString(val) == <<ToString(val[1]), ".">> \o SixDigits(val[2])

generate_integer_literal(expr) == <<ToString(expr.value), "LL">>

generate_double_literal(expr) ==
    LET str == DoubleToString(expr.value)
    IN  IF \A i \in 1..Len(str) : str[i] \notin {".", "e", "E"}
        THEN str \o <<".0">>
        ELSE str

EscapeChar(c) ==
    CASE c = "\"" -> "\\\""
      [] c = "\\" -> "\\\\"
      [] c = "\n" -> "\\n"
      [] c = "\r" -> "\\r"
      [] c = "\t" -> "\\t"
      [] OTHER -> c

generate_string_literal(expr) ==
    <<"\"">> \o [i \in 1..Len(expr.value) |-> EscapeChar(expr.value[i])] \o <<"\"">>

generate_boolean_literal(expr) == IF expr.value THEN <<"true">> ELSE <<"false">>

generate_identifier(expr) == <<expr.name>>

ToStringCall(code) == <<"std::to_string(">> \o code \o <<")">>

(* A plausible slip: operands wrapped whatever the operation's own type. *)
generate_binary_op_wrap_always(expr, left_cpp, right_cpp) ==
    CASE expr.op_token = "PLUS" ->
            GenOk(<<"(">>
                  \o (IF expr.left.expr_type # "TEXT"
                      THEN ToStringCall(left_cpp) ELSE left_cpp)
                  \o <<" ", "+", " ">>
                  \o (IF expr.right.expr_type # "TEXT"
                      THEN ToStringCall(right_cpp) ELSE right_cpp)
                  \o <<")">>)
      [] expr.op_token = "QUESTION_EQUALS" ->
            GenOk(<<"(">> \o left_cpp \o <<" ", "==", " ">> \o right_cpp \o <<")">>)
      [] OTHER -> GenFail(UnsupportedOperatorError(expr.op_token))

(* generate_expr_code of a BinaryOpNode, given its operands' code. *)
generate_binary_op(expr, left_cpp, right_cpp) ==
    CASE expr.op_token = "PLUS" ->
            GenOk(<<"(">>
                  \o (IF expr.expr_type = "TEXT" /\ expr.left.expr_type # "TEXT"
                      THEN ToStringCall(left_cpp) ELSE left_cpp)
                  \o <<" ", "+", " ">>
                  \o (IF expr.expr_type = "TEXT" /\ expr.right.expr_type # "TEXT"
                      THEN ToStringCall(right_cpp) ELSE right_cpp)
                  \o <<")">>)
      [] expr.op_token = "QUESTION_EQUALS" ->
            GenOk(<<"(">> \o left_cpp \o <<" ", "==", " ">> \o right_cpp \o <<")">>)
      [] OTHER -> GenFail(UnsupportedOperatorError(expr.op_token))

RECURSIVE generate_cpp_for_expression(_)
generate_cpp_for_expression(expr) ==
    CASE expr.node = "IntegerLiteral" -> GenOk(generate_integer_literal(expr))
      [] expr.node = "DoubleLiteral" -> GenOk(generate_double_literal(expr))
      [] expr.node = "StringLiteral" -> GenOk(generate_string_literal(expr))
      [] expr.node = "BooleanLiteral" -> GenOk(generate_boolean_literal(expr))
      [] expr.node = "Identifier" -> GenOk(generate_identifier(expr))
      [] expr.node = "BinaryOp" ->
            LET l == generate_cpp_for_expression(expr.left)
            IN  IF l.err # NoError THEN l
                ELSE LET r == generate_cpp_for_expression(expr.right)
                     IN  IF r.err # NoError THEN r
                         ELSE generate_binary_op(expr, l.text, r.text)
      [] OTHER -> GenFail(UnknownExpressionGenError)

generate_variable_declaration(stmt) ==
    GenCat(hscript_type_to_cpp_type(stmt.var_type),
    GenCat(GenOk(<<" ", stmt.identifier_name, " = ">>),
    GenCat(generate_cpp_for_expression(stmt.expression),
           GenOk(<<";\n">>))))

generate_says_statement(stmt) ==
    LET expr_h_type == stmt.expression.expr_type
        code == generate_cpp_for_expression(stmt.expression)
    IN  GenCat(GenOk(<<"std::cout << (">>),
        GenCat(IF code.err # NoError THEN code
               ELSE IF expr_h_type \in {"TEXT", "NUMBER", "LNUMBER", "RIEL", "LOGIC"}
               THEN code
               ELSE GenOk(ToStringCall(code.text)),
               GenOk(<<") << std::endl;\n">>)))

RECURSIVE generate_statement(_)
RECURSIVE generate_statements(_, _)

(* The loop of visit of a BlockStatementNode, from statement i on. *)
generate_statements(stmts, i) ==
    IF i > Len(stmts) THEN GenOk(<<>>)
    ELSE GenCat(GenOk(<<"        ">>),
         GenCat(generate_statement(stmts[i]), generate_statements(stmts, i + 1)))

(* A branch of an if: a block as it is, a bare statement within braces. *)
generate_branch(branch) ==
    IF branch.stmt = "BlockStatement"
    THEN generate_statement(branch)
    ELSE GenCat(GenOk(<<"{\n        ">>),
         GenCat(generate_statement(branch), GenOk(<<"    }">>)))

generate_statement(stmt) ==
    CASE stmt.stmt = "VariableDeclaration" -> generate_variable_declaration(stmt)
      [] stmt.stmt = "SaysStatement" -> generate_says_statement(stmt)
      [] stmt.stmt = "IfStatement" ->
            GenCat(GenOk(<<"if (">>),
            GenCat(generate_cpp_for_expression(stmt.condition),
            GenCat(GenOk(<<") ">>),
            GenCat(generate_branch(stmt.then_branch),
            GenCat(IF stmt.else_branch # NullStatement
                   THEN GenCat(GenOk(<<" else ">>), generate_branch(stmt.else_branch))
                   ELSE GenOk(<<>>),
                   GenOk(<<"\n">>))))))
      [] stmt.stmt = "BlockStatement" ->
            GenCat(GenOk(<<"{\n">>),
            GenCat(generate_statements(stmt.statements, 1), GenOk(<<"    }">>)))
      [] OTHER -> GenFail(UnknownStatementGenError)

RECURSIVE generate_top_level(_, _)
generate_top_level(stmts, i) ==
    IF i > Len(stmts) THEN GenOk(<<>>)
    ELSE GenCat(GenOk(<<"    ">>),
         GenCat(generate_statement(stmts[i]), generate_top_level(stmts, i + 1)))

(* The header test made to find nothing: every inferred include is written *)
(* whatever the use declarations name.                                     *)
UsesHeader_never(prog, header) == FALSE

UsesHeader(prog, header) ==
    \E i \in 1..Len(prog.use_declarations) : prog.use_declarations[i] = header

(* A plausible slip: the output prologue emitted whatever the program. *)
says_is_used_always(prog) == TRUE

says_is_used(prog) ==
    \E i \in 1..Len(prog.statements) : prog.statements[i].stmt = "SaysStatement"

text_type_is_used(prog) ==
    \E i \in 1..Len(prog.statements) :
        LET st == prog.statements[i]
        IN  \/ /\ st.stmt = "VariableDeclaration"
               /\ (st.var_type = "TEXT" \/ st.expression.expr_type = "TEXT")
            \/ /\ st.stmt = "SaysStatement"
               /\ st.expression.expr_type = "TEXT"

IncludeLines(prog) ==
    [i \in 1..Len(prog.use_declarations) |->
        "#include <" \o prog.use_declarations[i] \o ">\n"]

generate(prog) ==
    LET iostream_used == UsesHeader(prog, "iostream")
        iostream_included == iostream_used \/ says_is_used(prog)
        string_auto == text_type_is_used(prog) /\ ~UsesHeader(prog, "string")
    IN  GenCat(GenOk(<<"// Generated by HumanScript Compiler\n\n">>),
        GenCat(GenOk(IncludeLines(prog)),
        GenCat(GenOk(IF prog.use_declarations # <<>> THEN <<"\n">> ELSE <<>>),
        GenCat(GenOk(IF string_auto
                     THEN <<"#include <string> // Auto-included for text type or string operations\n">>
                     ELSE <<>>),
        GenCat(GenOk(IF says_is_used(prog)
                     THEN (IF ~iostream_used
                           THEN <<"#include <iostream> // Auto-included for 'says'\n">>
                           ELSE <<>>)
                          \o (IF ~UsesHeader(prog, "iomanip")
                              THEN <<"#include <iomanip>  // For std::boolalpha with 'says'\n">>
                              ELSE <<>>)
                          \o (IF ~UsesHeader(prog, "string") /\ ~string_auto
                              THEN <<"#include <string>   // For std::to_string with 'says'\n">>
                              ELSE <<>>)
                          \o <<"\n">>
                     ELSE <<>>),
        GenCat(GenOk(<<"int main() {\n">>),
        GenCat(GenOk(IF iostream_included
                     THEN <<"    std::cout << std::boolalpha; // Print booleans as true/false\n">>
                     ELSE <<>>),
        GenCat(generate_top_level(prog.statements, 1),
               GenOk(<<"    return 0;\n", "}\n">>)))))))))

-----------------------------------------------------------------------------
(* Lexer. The source is a sequence of characters, each a string of length   *)
(* one; positions are 0-based as current_pos is.                            *)

(* The '\0' peek and peek_next return at and past the end of the source. *)
NUL == "NUL"

isspace(c) == c \in {" ", "\t", "\n", "\r", "\f"}
isalpha(c) ==
    c \in {"a", "b", "c", "d", "e", "f", "g", "h", "i", "j", "k", "l", "m", "n", "o",
           "p", "q", "r", "s", "t", "u", "v", "w", "x", "y", "z", "A", "B", "C", "D",
           "E", "F", "G", "H", "I", "J", "K", "L", "M", "N", "O", "P", "Q", "R", "S",
           "T", "U", "V", "W", "X", "Y", "Z"}
isdigit(c) == c \in {"0", "1", "2", "3", "4", "5", "6", "7", "8", "9"}
isalnum(c) == isalpha(c) \/ isdigit(c)

peek(src, pos) == IF pos >= Len(src) THEN NUL ELSE src[pos + 1]
peek_next(src, pos) == IF pos + 1 >= Len(src) THEN NUL ELSE src[pos + 2]

(* advance: the position after it. *)
advance(src, pos) == IF pos < Len(src) THEN pos + 1 ELSE pos

(* line_number once current_pos is pos: advance counts the newlines. *)
line_number(src, pos) == 1 + Cardinality({i \in 1..pos : src[i] = "\n"})

RECURSIVE skip_comment(_, _)
(* The inner loop of skip_whitespace_and_comments: to the end of the line. *)
skip_comment(src, pos) ==
    IF peek(src, pos) # "\n" /\ peek(src, pos) # NUL
    THEN skip_comment(src, advance(src, pos))
    ELSE pos

RECURSIVE skip_whitespace_and_comments(_, _)
skip_whitespace_and_comments(src, pos) ==
    IF pos >= Len(src) THEN pos
    ELSE IF isspace(peek(src, pos))
    THEN skip_whitespace_and_comments(src, advance(src, pos))
    ELSE IF peek(src, pos) = "/" /\ peek_next(src, pos) = "/"
    THEN skip_whitespace_and_comments(src, skip_comment(src, pos))
    ELSE pos

(* Token: type, raw text and the variant value. *)
monostate == [kind |-> "monostate"]
Token(t, txt, val) == [type |-> t, text |-> txt, value |-> val]

TokenType ==
    {"KEYWORD_NUMBER", "KEYWORD_LNUMBER", "KEYWORD_TEXT", "KEYWORD_LOGIC", "KEYWORD_RIEL",
     "KEYWORD_SAYS", "KEYWORD_TRUE", "KEYWORD_FALSE", "KEYWORD_USE", "KEYWORD_IF",
     "KEYWORD_ELSE", "LT", "GT", "DOT", "SLASH", "IDENTIFIER", "INTEGER_LITERAL",
     "DOUBLE_LITERAL", "STRING_LITERAL", "COLON_EQUALS", "QUESTION_EQUALS", "PLUS",
     "SEMICOLON", "LPAREN", "RPAREN", "LBRACE", "RBRACE", "END_OF_FILE", "UNKNOWN"}

(* The keyword table of make_identifier_or_keyword. *)
keywords(ident_text) ==
    CASE ident_text = <<"n", "u", "m", "b", "e", "r">> -> "KEYWORD_NUMBER"
      [] ident_text = <<"l", "n", "u", "m", "b", "e", "r">> -> "KEYWORD_LNUMBER"
      [] ident_text = <<"t", "e", "x", "t">> -> "KEYWORD_TEXT"
      [] ident_text = <<"l", "o", "g", "i", "c">> -> "KEYWORD_LOGIC"
      [] ident_text = <<"r", "i", "e", "l">> -> "KEYWORD_RIEL"
      [] ident_text = <<"s", "a", "y", "s">> -> "KEYWORD_SAYS"
      [] ident_text = <<"t", "r", "u", "e">> -> "KEYWORD_TRUE"
      [] ident_text = <<"f", "a", "l", "s", "e">> -> "KEYWORD_FALSE"
      [] ident_text = <<"u", "s", "e">> -> "KEYWORD_USE"
      [] ident_text = <<"i", "f">> -> "KEYWORD_IF"
      [] ident_text = <<"e", "l", "s", "e">> -> "KEYWORD_ELSE"
      [] OTHER -> "IDENTIFIER"

make_identifier_or_keyword(ident_text) ==
    LET type == keywords(ident_text)
    IN  CASE type = "KEYWORD_TRUE" -> Token(type, ident_text, [kind |-> "bool", v |-> TRUE])
          [] type = "KEYWORD_FALSE" -> Token(type, ident_text, [kind |-> "bool", v |-> FALSE])
          [] type = "IDENTIFIER" ->
                Token(type, ident_text, [kind |-> "string", v |-> ident_text])
          [] OTHER -> Token(type, ident_text, monostate)

RECURSIVE identifier_end(_, _)
(* The loop of get_next_token over an identifier: where it stops. *)
identifier_end(src, pos) ==
    IF isalnum(peek(src, pos)) \/ peek(src, pos) = "_"
    THEN identifier_end(src, advance(src, pos))
    ELSE pos

RECURSIVE number_end(_, _, _)
(* The loop of make_number: where it stops and whether it met a '.'. *)
number_end(src, pos, is_double) ==
    IF \/ isdigit(peek(src, pos))
       \/ (peek(src, pos) = "." /\ ~is_double /\ isdigit(peek_next(src, pos)))
    THEN number_end(src, advance(src, pos), is_double \/ peek(src, pos) = ".")
    ELSE [pos |-> pos, is_double |-> is_double]

DigitValue(c) ==
    CASE c = "0" -> 0 [] c = "1" -> 1 [] c = "2" -> 2 [] c = "3" -> 3 [] c = "4" -> 4
      [] c = "5" -> 5 [] c = "6" -> 6 [] c = "7" -> 7 [] c = "8" -> 8 [] c = "9" -> 9

RECURSIVE DigitsValue(_)
(* The value of a digit run that fits the host integer. *)
DigitsValue(digits) ==
    IF digits = <<>> THEN 0
    ELSE 10 * DigitsValue(SubSeq(digits, 1, Len(digits) - 1))
            + DigitValue(digits[Len(digits)])

RECURSIVE StripZeros(_)
StripZeros(digits) ==
    IF Len(digits) > 1 /\ Head(digits) = "0" THEN StripZeros(Tail(digits)) ELSE digits

RECURSIVE DigitsLeq(_, _)
(* Two digit runs of one length, compared as numbers. *)
DigitsLeq(a, b) ==
    IF a = <<>> THEN TRUE
    ELSE IF DigitValue(Head(a)) # DigitValue(Head(b))
    THEN DigitValue(Head(a)) < DigitValue(Head(b))
    ELSE DigitsLeq(Tail(a), Tail(b))

(* std::stoi and std::stoll throw std::out_of_range above these. *)
IntMaxDigits == <<"2", "1", "4", "7", "4", "8", "3", "6", "4", "7">>
LLongMaxDigits ==
    <<"9", "2", "2", "3", "3", "7", "2", "0", "3", "6", "8", "5", "4", "7", "7", "5",
      "8", "0", "7">>

FitsIn(digits, max) ==
    LET d == StripZeros(digits)
    IN  Len(d) < Len(max) \/ (Len(d) = Len(max) /\ DigitsLeq(d, max))

(* std::stod of digits with at most one '.': the whole part and the first *)
(* six decimals.                                                           *)
stod(num_str) ==
    LET dot == IF \E i \in 1..Len(num_str) : num_str[i] = "."
               THEN CHOOSE i \in 1..Len(num_str) : num_str[i] = "."
               ELSE Len(num_str) + 1
        whole == SubSeq(num_str, 1, dot - 1)
        frac == SubSeq(num_str, dot + 1, Len(num_str))
        six == [i \in 1..6 |-> IF i <= Len(frac) THEN frac[i] ELSE "0"]
    IN  <<DigitsValue(whole), DigitsValue(six)>>

(* A plausible slip: no second attempt with std::stoll. *)
make_number_int_only(src, pos) ==
    LET e == number_end(src, pos, FALSE)
        num_str == SubSeq(src, pos + 1, e.pos)
    IN  IF e.is_double
        THEN [token |-> Token("DOUBLE_LITERAL", num_str,
                              [kind |-> "double", v |-> stod(num_str)]),
              pos |-> e.pos, diag |-> <<>>]
        ELSE IF FitsIn(num_str, IntMaxDigits)
        THEN [token |-> Token("INTEGER_LITERAL", num_str,
                              [kind |-> "int", v |-> DigitsValue(num_str)]),
              pos |-> e.pos, diag |-> <<>>]
        ELSE [token |-> Token("INTEGER_LITERAL", num_str,
                              [kind |-> "long long", v |-> <<"0">>]),
              pos |-> e.pos,
              diag |-> <<[kind |-> "IntegerOutOfRange", text |-> num_str]>>]

(* make_number: the token, the position after it and what it wrote to cerr. *)
make_number(src, pos) ==
    LET e == number_end(src, pos, FALSE)
        num_str == SubSeq(src, pos + 1, e.pos)
    IN  IF e.is_double
        THEN [token |-> Token("DOUBLE_LITERAL", num_str,
                              [kind |-> "double", v |-> stod(num_str)]),
              pos |-> e.pos, diag |-> <<>>]
        ELSE IF FitsIn(num_str, IntMaxDigits)
        THEN [token |-> Token("INTEGER_LITERAL", num_str,
                              [kind |-> "int", v |-> DigitsValue(num_str)]),
              pos |-> e.pos, diag |-> <<>>]
        ELSE IF FitsIn(num_str, LLongMaxDigits)
        THEN [token |-> Token("INTEGER_LITERAL", num_str,
                              [kind |-> "long long", v |-> StripZeros(num_str)]),
              pos |-> e.pos, diag |-> <<>>]
        ELSE [token |-> Token("INTEGER_LITERAL", num_str,
                              [kind |-> "long long", v |-> <<"0">>]),
              pos |-> e.pos,
              diag |-> <<[kind |-> "IntegerOutOfRange", text |-> num_str]>>]

(* The character make_string_literal stores for the one after a backslash. *)
unescape(c) ==
    CASE c = "n" -> "\n"
      [] c = "t" -> "\t"
      [] OTHER -> c

RECURSIVE string_body(_, _, _)
(* The loop of make_string_literal: where it stops and the value read. *)
string_body(src, pos, str_val) ==
    IF peek(src, pos) # "\"" /\ peek(src, pos) # NUL
    THEN IF peek(src, pos) = "\\"
         THEN LET p == advance(src, pos)
              IN  string_body(src, advance(src, p), Append(str_val, unescape(peek(src, p))))
         ELSE string_body(src, advance(src, pos), Append(str_val, peek(src, pos)))
    ELSE [pos |-> pos, str_val |-> str_val]

make_string_literal(src, pos) ==
    LET b == string_body(src, advance(src, pos), <<>>)
        closed == peek(src, b.pos) = "\""
    IN  [token |-> Token("STRING_LITERAL", <<"\"">> \o b.str_val \o <<"\"">>,
                         [kind |-> "string", v |-> b.str_val]),
         pos |-> IF closed THEN advance(src, b.pos) ELSE b.pos,
         diag |-> IF closed THEN <<>> ELSE <<[kind |-> "UnterminatedString"]>>]

(* The switch of get_next_token: the token type of a punctuation character, *)
(* "none" for a character the switch leaves.                                *)
punctuation(c, next) ==
    CASE c = ":" /\ next = "=" -> "COLON_EQUALS"
      [] c = "?" /\ next = "=" -> "QUESTION_EQUALS"
      [] c = "+" -> "PLUS"
      [] c = ";" -> "SEMICOLON"
      [] c = "(" -> "LPAREN"
      [] c = ")" -> "RPAREN"
      [] c = "{" -> "LBRACE"
      [] c = "}" -> "RBRACE"
      [] c = "<" -> "LT"
      [] c = ">" -> "GT"
      [] c = "." -> "DOT"
      [] c = "/" -> "SLASH"
      [] OTHER -> "none"

EndOfFileToken == Token("END_OF_FILE", <<>>, monostate)

(* A plausible slip: the unknown character reported but not passed. *)
get_next_token_stuck(src, pos) ==
    LET start == skip_whitespace_and_comments(src, pos)
        current_char == peek(src, start)
    IN  IF current_char = NUL
        THEN [token |-> EndOfFileToken, pos |-> start, diag |-> <<>>]
        ELSE IF isalpha(current_char) \/ current_char = "_"
        THEN LET e == identifier_end(src, start)
             IN  [token |-> make_identifier_or_keyword(SubSeq(src, start + 1, e)),
                  pos |-> e, diag |-> <<>>]
        ELSE IF isdigit(current_char)
                \/ (current_char = "." /\ isdigit(peek_next(src, start)))
        THEN make_number(src, start)
        ELSE IF current_char = "\""
        THEN make_string_literal(src, start)
        ELSE LET type == punctuation(current_char, peek_next(src, start))
             IN  IF type \in {"COLON_EQUALS", "QUESTION_EQUALS"}
                 THEN [token |-> Token(type, <<current_char, "=">>, monostate),
                       pos |-> advance(src, advance(src, start)), diag |-> <<>>]
                 ELSE IF type # "none"
                 THEN [token |-> Token(type, <<current_char>>, monostate),
                       pos |-> advance(src, start), diag |-> <<>>]
                 ELSE [token |-> Token("UNKNOWN", <<current_char>>, monostate),
                       pos |-> start,
                       diag |-> <<[kind |-> "UnknownCharacter", char |-> current_char,
                                   line |-> line_number(src, start)]>>]

(* get_next_token from position pos: the token, the position after it and *)
(* what was written to cerr.                                              *)
get_next_token(src, pos) ==
    LET start == skip_whitespace_and_comments(src, pos)
        current_char == peek(src, start)
    IN  IF current_char = NUL
        THEN [token |-> EndOfFileToken, pos |-> start, diag |-> <<>>]
        ELSE IF isalpha(current_char) \/ current_char = "_"
        THEN LET e == identifier_end(src, start)
             IN  [token |-> make_identifier_or_keyword(SubSeq(src, start + 1, e)),
                  pos |-> e, diag |-> <<>>]
        ELSE IF isdigit(current_char)
                \/ (current_char = "." /\ isdigit(peek_next(src, start)))
        THEN make_number(src, start)
        ELSE IF current_char = "\""
        THEN make_string_literal(src, start)
        ELSE LET type == punctuation(current_char, peek_next(src, start))
             IN  IF type \in {"COLON_EQUALS", "QUESTION_EQUALS"}
                 THEN [token |-> Token(type, <<current_char, "=">>, monostate),
                       pos |-> advance(src, advance(src, start)), diag |-> <<>>]
                 ELSE IF type # "none"
                 THEN [token |-> Token(type, <<current_char>>, monostate),
                       pos |-> advance(src, start), diag |-> <<>>]
                 ELSE [token |-> Token("UNKNOWN", <<current_char>>, monostate),
                       pos |-> advance(src, start),
                       diag |-> <<[kind |-> "UnknownCharacter", char |-> current_char,
                                   line |-> line_number(src, start)]>>]

RECURSIVE tokenize_from(_, _, _, _)
(* A plausible slip: the loop left at the end-of-file token only, unknown *)
(* tokens kept and scanning carried on after them.                        *)
tokenize_from_continues(src, pos, tokens, diag) ==
    LET r == get_next_token(src, pos)
    IN  IF r.token.type # "END_OF_FILE"
        THEN tokenize_from(src, r.pos, Append(tokens, r.token), diag \o r.diag)
        ELSE [tokens |-> tokens \o <<EndOfFileToken>>, pos |-> r.pos,
              diag |-> diag \o r.diag]

(* The loop of tokenize and what follows it. *)
tokenize_from(src, pos, tokens, diag) ==
    LET r == get_next_token(src, pos)
    IN  IF r.token.type # "END_OF_FILE" /\ r.token.type # "UNKNOWN"
        THEN tokenize_from(src, r.pos, Append(tokens, r.token), diag \o r.diag)
        ELSE [tokens |-> (IF r.token.type = "UNKNOWN"
                          THEN Append(tokens, r.token) ELSE tokens)
                         \o <<EndOfFileToken>>,
              pos |-> r.pos,
              diag |-> diag \o r.diag]

tokenize(src) == tokenize_from(src, 0, <<>>, <<>>)

-----------------------------------------------------------------------------
(* Parser. The cursor cur is current_token_idx, 0-based; a parsing function *)
(* returns what it built, the cursor after it and the exception thrown, if  *)
(* any.                                                                     *)

RECURSIVE Cat(_)
(* The std::string with the characters chars. *)
Cat(chars) == IF chars = <<>> THEN "" ELSE Head(chars) \o Cat(Tail(chars))

(* The std::runtime_error a parsing function throws: what it met, and what *)
(* it expected where the message says so.                                  *)
ParseError(kind, got) == [kind |-> kind, got |-> got.type]

(* Parser::peek *)
peek_token(tokens, cur) == IF cur >= Len(tokens) THEN EndOfFileToken ELSE tokens[cur + 1]

(* Parser::advance: the token returned and the cursor after it. *)
advance_token(tokens, cur) ==
    IF cur < Len(tokens)
    THEN [token |-> tokens[cur + 1], cur |-> cur + 1]
    ELSE [token |-> tokens[Len(tokens)], cur |-> cur]

(* A parsing function returns normally with what it built, or throws. *)
ParseOk(node, cur) == [node |-> node, cur |-> cur, err |-> NoError]
ParseFail(cur, err) == [node |-> NullStatement, cur |-> cur, err |-> err]

(* A plausible slip: a token missing at the end of the input let pass. *)
consume_lenient(tokens, cur, type) ==
    IF peek_token(tokens, cur).type = type
    THEN [token |-> advance_token(tokens, cur).token, node |-> NullStatement,
          cur |-> advance_token(tokens, cur).cur, err |-> NoError]
    ELSE IF peek_token(tokens, cur).type = "END_OF_FILE"
    THEN [token |-> peek_token(tokens, cur), node |-> NullStatement, cur |-> cur,
          err |-> NoError]
    ELSE [token |-> peek_token(tokens, cur), node |-> NullStatement, cur |-> cur,
          err |-> [kind |-> "ExpectedToken", expected |-> type,
                   got |-> peek_token(tokens, cur).type]]

(* Parser::consume *)
consume(tokens, cur, type) ==
    IF peek_token(tokens, cur).type = type
    THEN [token |-> advance_token(tokens, cur).token, node |-> NullStatement,
          cur |-> advance_token(tokens, cur).cur, err |-> NoError]
    ELSE [token |-> peek_token(tokens, cur), node |-> NullStatement, cur |-> cur,
          err |-> [kind |-> "ExpectedToken", expected |-> type,
                   got |-> peek_token(tokens, cur).type]]

TypeKeywords ==
    {"KEYWORD_NUMBER", "KEYWORD_LNUMBER", "KEYWORD_TEXT", "KEYWORD_LOGIC", "KEYWORD_RIEL"}

(* The switch of parse_variable_declaration_statement. *)
var_hscript_type(type) ==
    CASE type = "KEYWORD_NUMBER" -> "NUMBER"
      [] type = "KEYWORD_LNUMBER" -> "LNUMBER"
      [] type = "KEYWORD_TEXT" -> "TEXT"
      [] type = "KEYWORD_LOGIC" -> "LOGIC"
      [] type = "KEYWORD_RIEL" -> "RIEL"

(* Sequencing of a parsing function's steps: r is the outcome of the steps *)
(* before, and an exception among them is the outcome of the function.      *)

(* return of the node built once the steps r are over. *)
with_node(r, node) == IF r.err # NoError THEN r ELSE ParseOk(node, r.cur)

(* consume(type, ...) next, what was built before kept. *)
expect(r, tokens, type) ==
    IF r.err # NoError THEN r ELSE with_node(consume(tokens, r.cur, type), r.node)

RECURSIVE parse_expression(_, _)
RECURSIVE parse_comparison(_, _)
RECURSIVE parse_addition(_, _)
RECURSIVE parse_factor(_, _)
RECURSIVE comparison_loop(_, _)
RECURSIVE addition_loop(_, _)

(* parse_expression() next. *)
expression_after(r, tokens) ==
    IF r.err # NoError THEN r ELSE parse_expression(tokens, r.cur)

parse_factor(tokens, cur) ==
    LET current_token == peek_token(tokens, cur)
        next == advance_token(tokens, cur).cur
    IN  CASE current_token.type = "INTEGER_LITERAL" ->
                ParseOk(IntegerLiteralNode(current_token.value.v), next)
          [] current_token.type = "DOUBLE_LITERAL" ->
                ParseOk(DoubleLiteralNode(current_token.value.v), next)
          [] current_token.type = "STRING_LITERAL" ->
                ParseOk(StringLiteralNode(current_token.value.v), next)
          [] current_token.type = "KEYWORD_TRUE" -> ParseOk(BooleanLiteralNode(TRUE), next)
          [] current_token.type = "KEYWORD_FALSE" -> ParseOk(BooleanLiteralNode(FALSE), next)
          [] current_token.type = "IDENTIFIER" ->
                ParseOk(IdentifierNode(Cat(current_token.value.v)), next)
          [] current_token.type = "LPAREN" ->
                expect(expression_after(consume(tokens, cur, "LPAREN"), tokens),
                       tokens, "RPAREN")
          [] OTHER -> ParseFail(cur, ParseError("UnexpectedTokenForFactor", current_token))

(* make_unique<BinaryOpNode>(left, operator_token, right) once right is parsed. *)
binary(left, op, right) == with_node(right, BinaryOpNode(left.node, op, right.node))

(* A plausible slip: the right operand parsed as a whole addition, which *)
(* groups a + b + c to the right.                                        *)
addition_loop_right(tokens, left) ==
    IF left.err # NoError THEN left
    ELSE IF peek_token(tokens, left.cur).type = "PLUS"
    THEN binary(left, "PLUS",
                parse_addition(tokens, advance_token(tokens, left.cur).cur))
    ELSE left

(* The while loop of parse_addition, entered with left parsed. *)
addition_loop(tokens, left) ==
    IF left.err # NoError THEN left
    ELSE IF peek_token(tokens, left.cur).type = "PLUS"
    THEN addition_loop(tokens,
             binary(left, "PLUS",
                    parse_factor(tokens, advance_token(tokens, left.cur).cur)))
    ELSE left

parse_addition(tokens, cur) == addition_loop(tokens, parse_factor(tokens, cur))

(* The while loop of parse_comparison, entered with left parsed. *)
comparison_loop(tokens, left) ==
    IF left.err # NoError THEN left
    ELSE IF peek_token(tokens, left.cur).type = "QUESTION_EQUALS"
    THEN comparison_loop(tokens,
             binary(left, "QUESTION_EQUALS",
                    parse_addition(tokens, advance_token(tokens, left.cur).cur)))
    ELSE left

parse_comparison(tokens, cur) == comparison_loop(tokens, parse_addition(tokens, cur))

parse_expression(tokens, cur) == parse_comparison(tokens, cur)

(* parse_variable_declaration_statement from the identifier on. *)
declaration_after_type(tokens, type_token, identifier_token) ==
    IF identifier_token.err # NoError THEN identifier_token
    ELSE LET rest == expect(expression_after(expect(identifier_token, tokens,
                                                    "COLON_EQUALS"),
                                             tokens),
                            tokens, "SEMICOLON")
         IN  with_node(rest,
                       VariableDeclarationNode(var_hscript_type(type_token.type),
                                               Cat(identifier_token.token.value.v),
                                               rest.node))

parse_variable_declaration_statement(tokens, cur) ==
    declaration_after_type(tokens, advance_token(tokens, cur).token,
                           consume(tokens, advance_token(tokens, cur).cur, "IDENTIFIER"))

parse_says_statement(tokens, cur) ==
    LET expr == expect(expression_after(consume(tokens, cur, "KEYWORD_SAYS"), tokens),
                       tokens, "SEMICOLON")
    IN  with_node(expr, SaysStatementNode(expr.node))

parse_statement(tokens, cur) ==
    LET current_type == peek_token(tokens, cur).type
    IN  IF current_type \in TypeKeywords
        THEN parse_variable_declaration_statement(tokens, cur)
        ELSE IF current_type = "KEYWORD_SAYS"
        THEN parse_says_statement(tokens, cur)
        ELSE ParseFail(cur, ParseError("UnexpectedTokenAtStatement", peek_token(tokens, cur)))

RECURSIVE parse_header_path(_, _, _)
(* A plausible slip: the loop left at '>' only, the end of the input read *)
(* as a part of the path.                                                 *)
parse_header_path_to_gt(tokens, cur, path_str) ==
    IF peek_token(tokens, cur).type # "GT"
    THEN LET current_part == advance_token(tokens, cur)
         IN  IF \/ current_part.token.type \in
                        {"IDENTIFIER", "DOT", "SLASH", "INTEGER_LITERAL"}
                \/ current_part.token.text = <<"h">>
             THEN parse_header_path(tokens, current_part.cur,
                                    path_str \o current_part.token.text)
             ELSE ParseFail(current_part.cur,
                            ParseError("InvalidTokenInUsePath", current_part.token))
    ELSE IF path_str = <<>>
    THEN ParseFail(cur, [kind |-> "EmptyUsePath"])
    ELSE ParseOk(path_str, cur)

(* parse_header_path from the cursor cur with path_str read so far: node is *)
(* the path.                                                                *)
parse_header_path(tokens, cur, path_str) ==
    IF peek_token(tokens, cur).type # "GT" /\ peek_token(tokens, cur).type # "END_OF_FILE"
    THEN LET current_part == advance_token(tokens, cur)
         IN  IF \/ current_part.token.type \in
                        {"IDENTIFIER", "DOT", "SLASH", "INTEGER_LITERAL"}
                \/ current_part.token.text = <<"h">>
             THEN parse_header_path(tokens, current_part.cur,
                                    path_str \o current_part.token.text)
             ELSE ParseFail(current_part.cur,
                            ParseError("InvalidTokenInUsePath", current_part.token))
    ELSE IF path_str = <<>>
    THEN ParseFail(cur, [kind |-> "EmptyUsePath"])
    ELSE ParseOk(path_str, cur)

(* parse_header_path() next. *)
path_after(r, tokens) ==
    IF r.err # NoError THEN r ELSE parse_header_path(tokens, r.cur, <<>>)

(* parse_use_declaration: node is the header name of the UseNode. *)
parse_use_declaration(tokens, cur) ==
    LET header_name ==
            expect(expect(path_after(expect(consume(tokens, cur, "KEYWORD_USE"),
                                            tokens, "LT"),
                                     tokens),
                          tokens, "GT"),
                   tokens, "SEMICOLON")
    IN  with_node(header_name, Cat(header_name.node))

(* push_back of what was parsed onto the list built so far. *)
push_back(list, item) == with_node(item, Append(list.node, item.node))

RECURSIVE parse_uses(_, _)
(* The first loop of parse_program, with the use declarations parsed so far. *)
parse_uses(tokens, uses) ==
    IF uses.err # NoError THEN uses
    ELSE IF peek_token(tokens, uses.cur).type = "KEYWORD_USE"
    THEN parse_uses(tokens, push_back(uses, parse_use_declaration(tokens, uses.cur)))
    ELSE uses

(* The test of parse_program on the first token of a top-level statement. *)
starts_statement(type) == type \in TypeKeywords \cup {"KEYWORD_SAYS"}

RECURSIVE parse_statements(_, _)
(* A plausible slip: use declarations taken by the statement loop too, so *)
(* accepted after a statement.                                            *)
parse_statements_with_use(tokens, stmts) ==
    IF stmts.err # NoError THEN stmts
    ELSE IF peek_token(tokens, stmts.cur).type = "KEYWORD_USE"
    THEN parse_statements(tokens,
                          with_node(parse_use_declaration(tokens, stmts.cur),
                                    stmts.node))
    ELSE IF peek_token(tokens, stmts.cur).type \notin {"END_OF_FILE", "UNKNOWN"}
    THEN IF starts_statement(peek_token(tokens, stmts.cur).type)
         THEN parse_statements(tokens,
                               push_back(stmts, parse_statement(tokens, stmts.cur)))
         ELSE ParseFail(stmts.cur,
                        ParseError("UnexpectedTokenAtTopLevel",
                                   peek_token(tokens, stmts.cur)))
    ELSE stmts

(* The second loop of parse_program, with the statements parsed so far. *)
parse_statements(tokens, stmts) ==
    IF stmts.err # NoError THEN stmts
    ELSE IF peek_token(tokens, stmts.cur).type \notin {"END_OF_FILE", "UNKNOWN"}
    THEN IF starts_statement(peek_token(tokens, stmts.cur).type)
         THEN parse_statements(tokens,
                               push_back(stmts, parse_statement(tokens, stmts.cur)))
         ELSE ParseFail(stmts.cur,
                        ParseError("UnexpectedTokenAtTopLevel",
                                   peek_token(tokens, stmts.cur)))
    ELSE stmts

(* A plausible slip: the unknown token the lexer stopped at not checked. *)
unknown_token_check_skipped(tokens, cur) == FALSE

(* The test parse_program makes after its loops. *)
unknown_token_check(tokens, cur) ==
    /\ peek_token(tokens, cur).type = "UNKNOWN"
    /\ tokens # <<>>
    /\ tokens[1].type # "END_OF_FILE"

(* parse_program after its loops: the UNKNOWN test and the return. *)
program_node(tokens, uses, stmts) ==
    IF stmts.err # NoError THEN stmts
    ELSE IF unknown_token_check(tokens, stmts.cur)
    THEN ParseFail(stmts.cur, [kind |-> "UnknownTokenFromLexer"])
    ELSE ParseOk(ProgramNode(uses.node, stmts.node), stmts.cur)

(* parse_program after its first loop. *)
program_after_uses(tokens, uses) ==
    IF uses.err # NoError THEN uses
    ELSE program_node(tokens, uses, parse_statements(tokens, ParseOk(<<>>, uses.cur)))

(* parse_program: node is the ProgramNode. *)
parse_program(tokens) == program_after_uses(tokens, parse_uses(tokens, ParseOk(<<>>, 0)))

-----------------------------------------------------------------------------
(* The programs analysed: what the parser can build from source text.       *)
MaxStmts == 2

Names == {"x", "y"}

(* The declared types parse_variable_declaration_statement can produce. *)
DeclTypes == {"NUMBER", "LNUMBER", "TEXT", "LOGIC", "RIEL"}

(* A double is held as <<whole part, millionths>>. *)
Literals ==
    {IntegerLiteralNode(42), DoubleLiteralNode(<<1, 500000>>),
     StringLiteralNode(<<"H", "i", " ">>), BooleanLiteralNode(TRUE)}

Atoms == Literals \cup {IdentifierNode(n) : n \in Names}

BinaryOps(L, R) ==
    {BinaryOpNode(l, op, r) : l \in L, op \in {"PLUS", "QUESTION_EQUALS"}, r \in R}

(* Every expression with at most one operator, and the nestings of          *)
(* operators over literals and one name, on either side.                    *)
NestAtoms ==
    {IntegerLiteralNode(42), StringLiteralNode(<<"H", "i", " ">>), BooleanLiteralNode(TRUE),
     IdentifierNode("x")}

FlatExprs ==
    Atoms \cup BinaryOps(Atoms, Atoms)
        \cup {BinaryOpNode(BooleanLiteralNode(TRUE), "QUESTION_EQUALS",
                           BooleanLiteralNode(FALSE))}

NestedExprs ==
    BinaryOps(BinaryOps(NestAtoms, NestAtoms), NestAtoms)
        \cup BinaryOps(NestAtoms, BinaryOps(NestAtoms, NestAtoms))

(* The literal written for a declared type. *)
LiteralFor(t) ==
    CASE t = "NUMBER" -> IntegerLiteralNode(42)
      [] t = "LNUMBER" -> IntegerLiteralNode(42)
      [] t = "TEXT" -> StringLiteralNode(<<"H", "i", " ">>)
      [] t = "LOGIC" -> BooleanLiteralNode(TRUE)
      [] t = "RIEL" -> DoubleLiteralNode(<<1, 500000>>)

PlainDecls ==
    {VariableDeclarationNode(t, n, LiteralFor(t)) : t \in DeclTypes, n \in Names}
        \cup {VariableDeclarationNode("RIEL", n, IntegerLiteralNode(42)) : n \in Names}

Decls ==
    {VariableDeclarationNode(t, n, e) : t \in DeclTypes, n \in Names, e \in FlatExprs}

Says == {SaysStatementNode(e) : e \in FlatExprs \cup NestedExprs}

(* if statements: a condition, a then branch and an optional else branch,   *)
(* each branch a bare statement, a block or a nested if.                    *)
Conditions ==
    {BooleanLiteralNode(TRUE), IntegerLiteralNode(42), IdentifierNode("x"),
     BinaryOpNode(IntegerLiteralNode(42), "QUESTION_EQUALS", IntegerLiteralNode(42)),
     BinaryOpNode(IdentifierNode("y"), "PLUS", BooleanLiteralNode(TRUE))}

InnerStmts ==
    {SaysStatementNode(StringLiteralNode(<<"H", "i", " ">>)),
     SaysStatementNode(IdentifierNode("y")),
     VariableDeclarationNode("LNUMBER", "y", IntegerLiteralNode(42)),
     VariableDeclarationNode("TEXT", "x",
         BinaryOpNode(StringLiteralNode(<<"H", "i", " ">>), "PLUS", IntegerLiteralNode(42)))}

Branches ==
    InnerStmts
        \cup {BlockStatementNode(<<>>),
              BlockStatementNode(<<VariableDeclarationNode("LOGIC", "y",
                                       BooleanLiteralNode(TRUE)),
                                   SaysStatementNode(IdentifierNode("y"))>>),
              IfStatementNode(IdentifierNode("y"),
                              SaysStatementNode(IdentifierNode("x")),
                              NullStatement)}

Ifs ==
    {IfStatementNode(c, t, e) :
        c \in Conditions, t \in Branches, e \in Branches \cup {NullStatement}}

Stmts == Decls \cup Says \cup Ifs

(* Sequences of at most n statements with at most one statement that is    *)
(* not a plain declaration.                                                 *)
RECURSIVE PlainSeqs(_)
PlainSeqs(n) ==
    IF n = 0 THEN {<<>>}
    ELSE LET shorter == PlainSeqs(n - 1)
         IN  shorter \cup {Append(q, d) : q \in shorter, d \in PlainDecls}

(* The initial programs: p, then at most one statement s of Stmts, then q, *)
(* with p and q plain declarations.                                        *)
InitProgram(prog) ==
    \/ \E q \in PlainSeqs(MaxStmts) : prog = ProgramNode(<<>>, q)
    \/ \E p \in PlainSeqs(MaxStmts - 1) :
       \E q \in PlainSeqs(MaxStmts - 1 - Len(p)) :
       \E s \in Stmts : prog = ProgramNode(<<>>, p \o <<s>> \o q)

-----------------------------------------------------------------------------
(* main(): a SemanticAnalyzer is constructed and analyze is called once on  *)
(* the parsed program.                                                      *)
NoCall == [fn |-> "none"]

Init ==
    /\ InitProgram(program)
    /\ symbol_table = EmptyTable
    /\ idx = 0
    /\ pc = "start"
    /\ error = NoError
    /\ declared_log = <<>>
    /\ output = <<>>
    /\ call = NoCall
    /\ ret = NoCall
    /\ source_code = <<>>
    /\ tokens_list = <<>>
    /\ current_token_idx = 0
    /\ current_pos = 0
    /\ diagnostics = <<>>

(* A plausible slip: the table of the previous call kept. *)
clear_kept(table) == table

(* symbol_table.clear() *)
clear(table) == EmptyTable

(* analyze: symbol_table.clear() and entry into the loop. *)
AnalyzeBegin ==
    /\ pc = "start"
    /\ symbol_table' = clear(symbol_table)
    /\ declared_log' = <<>>
    /\ idx' = 1
    /\ pc' = "visiting"
    /\ UNCHANGED <<program, error, output, call, ret>>
    /\ UNCHANGED front_end

(* analyze: one iteration of the loop, visit(stmt.get()). An exception      *)
(* leaves analyze and ends main with a failure.                             *)
VisitStatement ==
    /\ pc = "visiting"
    /\ idx <= Len(program.statements)
    /\ LET r == visit(program.statements[idx], symbol_table, declared_log)
       IN  /\ program' = [program EXCEPT !.statements[idx] = r.stmt]
           /\ symbol_table' = r.table
           /\ declared_log' = r.log
           /\ error' = r.err
           /\ IF r.err # NoError
              THEN pc' = "failed" /\ idx' = idx
              ELSE pc' = "visiting" /\ idx' = idx + 1
    /\ UNCHANGED <<output, call, ret>>
    /\ UNCHANGED front_end

(* analyze: the loop is over and analyze returns. *)
AnalyzeReturn ==
    /\ pc = "visiting"
    /\ idx > Len(program.statements)
    /\ pc' = "analyzed"
    /\ UNCHANGED <<program, symbol_table, idx, error, declared_log, output, call, ret>>
    /\ UNCHANGED front_end

(* main(): code_generator.generate(ast_root.get()) after analyze returned. *)
Generate ==
    /\ pc = "analyzed"
    /\ LET g == generate(program)
       IN  /\ output' = g.text
           /\ error' = g.err
           /\ pc' = IF g.err # NoError THEN "failed" ELSE "generated"
    /\ UNCHANGED <<program, symbol_table, idx, declared_log, call, ret>>
    /\ UNCHANGED front_end

Next == AnalyzeBegin \/ VisitStatement \/ AnalyzeReturn \/ Generate

Spec == Init /\ [][Next]_vars

-----------------------------------------------------------------------------
(* One SemanticAnalyzer object on which analyze is called again and again,  *)
(* after calls that returned and after calls that threw.                    *)

(* analyze(program) by a freshly constructed analyzer, as one function. *)
analyze(prog) == visit_statements(prog.statements, 1, EmptyTable, <<>>)

(* Programs handed to a later call of analyze. *)
RerunPrograms ==
    {ProgramNode(<<>>, <<SaysStatementNode(IdentifierNode("y"))>>),
     ProgramNode(<<>>, <<VariableDeclarationNode("LNUMBER", "x", IntegerLiteralNode(42)),
                         SaysStatementNode(IdentifierNode("x"))>>),
     ProgramNode(<<>>, <<VariableDeclarationNode("TEXT", "x",
                             StringLiteralNode(<<"H", "i", " ">>)),
                         SaysStatementNode(BinaryOpNode(IdentifierNode("x"), "PLUS",
                                                        IdentifierNode("y")))>>),
     ProgramNode(<<>>, <<VariableDeclarationNode("LOGIC", "y", BooleanLiteralNode(TRUE)),
                         IfStatementNode(IdentifierNode("y"),
                                         SaysStatementNode(IdentifierNode("y")),
                                         NullStatement)>>)}

AnalyzeCall(prog, again, previous, leftover) ==
    [fn |-> "analyze", program |-> prog, again |-> again, previous |-> previous,
     leftover |-> leftover]

InitRuns ==
    /\ InitProgram(program)
    /\ symbol_table = EmptyTable
    /\ idx = 0
    /\ pc = "start"
    /\ error = NoError
    /\ declared_log = <<>>
    /\ output = <<>>
    /\ call = AnalyzeCall(program, "first", "none", {})
    /\ ret = NoCall
    /\ source_code = <<>>
    /\ tokens_list = <<>>
    /\ current_token_idx = 0
    /\ current_pos = 0
    /\ diagnostics = <<>>

(* The next call of analyze on the same object: on the tree the previous    *)
(* call annotated, or on another program. The object keeps its table.       *)
AnalyzeAgain ==
    /\ pc \in {"analyzed", "failed"}
    /\ \/ /\ program' = program
          /\ call' = AnalyzeCall(program, "same", pc, DOMAIN symbol_table)
       \/ \E prog \in RerunPrograms :
            /\ program' = prog
            /\ call' = AnalyzeCall(prog, "other", pc, DOMAIN symbol_table)
    /\ idx' = 0
    /\ pc' = "start"
    /\ error' = NoError
    /\ UNCHANGED <<symbol_table, declared_log, output, ret>>
    /\ UNCHANGED front_end

NextRuns == AnalyzeBegin \/ VisitStatement \/ AnalyzeReturn \/ AnalyzeAgain

SpecRuns == InitRuns /\ [][NextRuns]_vars

-----------------------------------------------------------------------------
(* The type-system helpers called directly, on every pair of type tags and  *)
(* every operator token type.                                               *)
InitTypes ==
    /\ call \in [a : HScriptType, b : HScriptType, op : OpTokenType]
    /\ ret = NoCall
    /\ pc = "types"
    /\ program = ProgramNode(<<>>, <<>>)
    /\ symbol_table = EmptyTable
    /\ idx = 0
    /\ error = NoError
    /\ declared_log = <<>>
    /\ output = <<>>
    /\ source_code = <<>>
    /\ tokens_list = <<>>
    /\ current_token_idx = 0
    /\ current_pos = 0
    /\ diagnostics = <<>>

(* is_assignable(target_type = call.a, value_type = call.b) *)
CallIsAssignable ==
    /\ pc = "types"
    /\ ret = NoCall
    /\ ret' = [fn |-> "is_assignable", value |-> is_assignable(call.a, call.b)]
    /\ UNCHANGED <<program, symbol_table, idx, pc, error, declared_log, output, call>>
    /\ UNCHANGED front_end

(* get_binary_op_result_type(left_type = call.a, right_type = call.b, call.op) *)
CallGetBinaryOpResultType ==
    /\ pc = "types"
    /\ ret = NoCall
    /\ ret' = [fn |-> "get_binary_op_result_type",
               value |-> get_binary_op_result_type(call.a, call.b, call.op)]
    /\ UNCHANGED <<program, symbol_table, idx, pc, error, declared_log, output, call>>
    /\ UNCHANGED front_end

(* visit_and_get_type of a BinaryOpNode whose operands were typed call.a    *)
(* and call.b: the node's tag, and the exception when the tag is UNKNOWN.   *)
CallVisitBinaryOp ==
    /\ pc = "types"
    /\ ret = NoCall
    /\ LET l == [IdentifierNode("x") EXCEPT !.expr_type = call.a]
           r == [IdentifierNode("y") EXCEPT !.expr_type = call.b]
           v == visit_binary_op(BinaryOpNode(l, call.op, r), l, r)
       IN  /\ ret' = [fn |-> "visit_binary_op", value |-> v.expr.expr_type]
           /\ error' = v.err
    /\ UNCHANGED <<program, symbol_table, idx, pc, declared_log, output, call>>
    /\ UNCHANGED front_end

(* visit of `says <literal of type call.a> <op> <literal of type call.b>;` *)
(* by a fresh analyzer, for the types a literal can have.                   *)
CallVisitSays ==
    /\ pc = "types"
    /\ ret = NoCall
    /\ call.a \in {"LNUMBER", "TEXT", "LOGIC", "RIEL"}
    /\ call.b \in {"LNUMBER", "TEXT", "LOGIC", "RIEL"}
    /\ call.op \in {"PLUS", "QUESTION_EQUALS"}
    /\ LET e == BinaryOpNode(LiteralFor(call.a), call.op, LiteralFor(call.b))
           v == visit_says_statement(SaysStatementNode(e), EmptyTable, <<>>)
       IN  /\ ret' = [fn |-> "visit_says_statement",
                      value |-> v.stmt.expression.expr_type]
           /\ error' = v.err
    /\ UNCHANGED <<program, symbol_table, idx, pc, declared_log, output, call>>
    /\ UNCHANGED front_end

NextTypes ==
    CallIsAssignable \/ CallGetBinaryOpResultType \/ CallVisitBinaryOp \/ CallVisitSays

SpecTypes == InitTypes /\ [][NextTypes]_vars

-----------------------------------------------------------------------------
(* The source texts compiled. Lexemes are written as their characters and  *)
(* joined with single spaces.                                               *)

RECURSIVE Flatten(_)
Flatten(seqs) == IF seqs = <<>> THEN <<>> ELSE Head(seqs) \o Flatten(Tail(seqs))

RECURSIVE JoinWithSpaces(_)
JoinWithSpaces(seqs) ==
    IF seqs = <<>> THEN <<>>
    ELSE IF Len(seqs) = 1 THEN seqs[1]
    ELSE Head(seqs) \o <<" ">> \o JoinWithSpaces(Tail(seqs))

MaxSrcLen == 4
MaxOperands == 4

(* Every text of at most MaxSrcLen characters, over characters of every *)
(* class the lexer tells apart.                                         *)
ShortSources ==
    LET Alphabet == {"n", "1", " ", "\n", "\"", "\\", "?", "=", "/", ".", "@"}
    IN  UNION {[1..n -> Alphabet] : n \in 0..MaxSrcLen}

(* if (1 ?= 1) says "yes"; else says "no"; *)
SourceIf ==
    JoinWithSpaces(
        <<<<"i", "f">>, <<"(">>, <<"1">>, <<"?", "=">>, <<"1">>, <<")">>,
          <<"s", "a", "y", "s">>, <<"\"", "y", "e", "s", "\"">>, <<";">>,
          <<"e", "l", "s", "e">>, <<"s", "a", "y", "s">>, <<"\"", "n", "o", "\"">>,
          <<";">>>>)

(* Three programs, each also with one stray lexeme put before any of its   *)
(* lexemes or at its end: a character the lexer has no rule for, a string  *)
(* literal left open, or a token that cannot stand there. With them the    *)
(* if statement above, a use declaration after a statement, and texts of   *)
(* whitespace and comments only.                                           *)
StatementSources ==
    LET says == <<"s", "a", "y", "s">>
        assign == <<":", "=">>
        \* use <io.h>; number x := 1 + 2; says x;
        SourceUse ==
            <<<<"u", "s", "e">>, <<"<">>, <<"i", "o">>, <<".">>, <<"h">>, <<">">>,
              <<";">>,
              <<"n", "u", "m", "b", "e", "r">>, <<"x">>, assign, <<"1">>, <<"+">>,
              <<"2">>, <<";">>,
              says, <<"x">>, <<";">>>>
        \* text y := "a\"b"; says y + "c\\" ?= "d\n";
        SourceText ==
            <<<<"t", "e", "x", "t">>, <<"y">>, assign,
              <<"\"", "a", "\\", "\"", "b", "\"">>, <<";">>,
              says, <<"y">>, <<"+">>, <<"\"", "c", "\\", "\\", "\"">>, <<"?", "=">>,
              <<"\"", "d", "\\", "n", "\"">>, <<";">>>>
        \* lnumber x := 7; riel y := 1.5; logic z := true;
        SourceTypes ==
            <<<<"l", "n", "u", "m", "b", "e", "r">>, <<"x">>, assign, <<"7">>, <<";">>,
              <<"r", "i", "e", "l">>, <<"y">>, assign, <<"1", ".", "5">>, <<";">>,
              <<"l", "o", "g", "i", "c">>, <<"z">>, assign, <<"t", "r", "u", "e">>,
              <<";">>>>
        StrayLexemes ==
            {<<"@">>, <<":">>, <<"?">>, <<"\"", "a", "b", "c">>,
             <<"x">>, <<"1">>, <<"\"", "s", "\"">>, <<"t", "r", "u", "e">>,
             <<"i", "f">>, <<"e", "l", "s", "e">>, <<"u", "s", "e">>,
             <<"{">>, <<"}">>, <<"(">>, <<")">>, <<";">>, <<"+">>, <<"?", "=">>}
        InsertAt(seq, k, elem) ==
            SubSeq(seq, 1, k) \o <<elem>> \o SubSeq(seq, k + 1, Len(seq))
        bases == {SourceUse, SourceText, SourceTypes}
        use(header) == <<<<"u", "s", "e">>, <<"<">>, header, <<">">>, <<";">>>>
        Headers ==
            {<<"i", "o", "s", "t", "r", "e", "a", "m">>, <<"s", "t", "r", "i", "n", "g">>,
             <<"i", "o", "m", "a", "n", "i", "p">>}
        \* says 1;   says "a";   text y := "a";   lnumber x := 1;
        \* logic b := ("a" + 1) ?= "a1";
        Bodies ==
            {<<says, <<"1">>, <<";">>>>,
             <<says, <<"\"", "a", "\"">>, <<";">>>>,
             <<<<"t", "e", "x", "t">>, <<"y">>, assign, <<"\"", "a", "\"">>, <<";">>>>,
             <<<<"l", "n", "u", "m", "b", "e", "r">>, <<"x">>, assign, <<"1">>, <<";">>>>,
             <<<<"l", "o", "g", "i", "c">>, <<"b">>, assign, <<"(">>,
               <<"\"", "a", "\"">>, <<"+">>, <<"1">>, <<")">>, <<"?", "=">>,
               <<"\"", "a", "1", "\"">>, <<";">>>>}
        \* Each body after no, one or two use declarations of the headers the
        \* generator infers.
        WithUses ==
            Bodies
            \cup {use(h) \o b : h \in Headers, b \in Bodies}
            \cup {use(h) \o use(g) \o b : h \in Headers, g \in Headers, b \in Bodies}
        \* Digit runs at and next to the ends of the int and long long ranges,
        \* each before an identifier.
        Numbers ==
            {<<"7">>, <<"0", "0", "7">>, IntMaxDigits,
             <<"2", "1", "4", "7", "4", "8", "3", "6", "4", "8">>,
             <<"0">> \o IntMaxDigits, LLongMaxDigits, <<"0", "0">> \o LLongMaxDigits,
             SubSeq(LLongMaxDigits, 1, 18) \o <<"8">>, LLongMaxDigits \o <<"0">>}
    IN  {JoinWithSpaces(b) : b \in bases \cup WithUses}
        \cup {JoinWithSpaces(<<d, <<"n">>>>) : d \in Numbers}
        \cup UNION {{JoinWithSpaces(InsertAt(b, k, l)) :
                         k \in 0..Len(b), l \in StrayLexemes} : b \in bases}
        \cup {SourceIf,
              JoinWithSpaces(<<says, <<"1">>, <<";">>>> \o SubSeq(SourceUse, 1, 7)),
              <<"\n", "\t", " ", " ", "\n">>,
              <<" ", "/", "/", "@", "\"", "\n", "/", "/", "i", "f", "\n", " ">>}

(* says o1 op1 o2 ... on; with one pair of parentheses around the operands *)
(* from..to, or none when from = 0.                                        *)
ExpressionSource(operands, ops, from, to) ==
    JoinWithSpaces(
        <<<<"s", "a", "y", "s">>>>
        \o Flatten([k \in 1..Len(ops) + 1 |->
                (IF k = from THEN <<<<"(">>>> ELSE <<>>)
                \o <<<<operands[k]>>>>
                \o (IF k = to THEN <<<<")">>>> ELSE <<>>)
                \o (IF k <= Len(ops) THEN <<ops[k]>> ELSE <<>>)])
        \o <<<<";">>>>)

(* The says statements over up to MaxOperands names or integer literals. *)
ExpressionSources ==
    UNION {{ExpressionSource(operands, ops, r[1], r[2]) :
                operands \in {<<"a", "b", "c", "d", "e">>, <<"1", "2", "3", "4", "5">>},
                ops \in [1..n - 1 -> {<<"+">>, <<"?", "=">>}],
                r \in {<<0, 0>>} \cup {<<i, j>> : i \in 1..n, j \in 1..n}} :
           n \in 1..MaxOperands}

-----------------------------------------------------------------------------
(* main(): the whole pipeline on a source text: Lexer::tokenize,            *)
(* Parser::parse_program, SemanticAnalyzer::analyze, CodeGenerator::generate. *)

(* ast_root before parse_program has returned. *)
NullProgram == [kind |-> "null"]

InitPipeline ==
    /\ \/ source_code \in ShortSources
       \/ source_code \in StatementSources
       \/ source_code \in ExpressionSources
    /\ tokens_list = <<>>
    /\ current_token_idx = 0
    /\ current_pos = 0
    /\ diagnostics = <<>>
    /\ program = NullProgram
    /\ symbol_table = EmptyTable
    /\ idx = 0
    /\ pc = "lex"
    /\ error = NoError
    /\ declared_log = <<>>
    /\ output = <<>>
    /\ call = NoCall
    /\ ret = NoCall

(* Lexer lexer(source_code); tokens = lexer.tokenize(); Parser parser(tokens) *)
Tokenize ==
    /\ pc = "lex"
    /\ LET r == tokenize(source_code)
       IN  /\ tokens_list' = r.tokens
           /\ current_pos' = r.pos
           /\ diagnostics' = r.diag
    /\ pc' = "lexed"
    /\ UNCHANGED <<program, symbol_table, idx, error, declared_log, output, call, ret,
                   source_code, current_token_idx>>

(* The token texts joined with single spaces. *)
JoinedTexts(tokens) == JoinWithSpaces([i \in 1..Len(tokens) |-> tokens[i].text])

(* A second Lexer constructed on the joined token texts, and its tokenize. *)
Retokenize ==
    /\ pc = "lexed"
    /\ call' = [fn |-> "tokenize", source |-> JoinedTexts(tokens_list)]
    /\ ret' = [fn |-> "tokenize", tokens |-> tokenize(JoinedTexts(tokens_list)).tokens,
               diag |-> tokenize(JoinedTexts(tokens_list)).diag]
    /\ pc' = "relexed"
    /\ UNCHANGED <<program, symbol_table, idx, error, declared_log, output>>
    /\ UNCHANGED front_end

(* ast_root = parser.parse_program(); an exception ends main with a failure. *)
ParseProgram ==
    /\ pc = "lexed"
    /\ LET r == parse_program(tokens_list)
       IN  /\ current_token_idx' = r.cur
           /\ error' = r.err
           /\ IF r.err = NoError
              THEN program' = r.node /\ pc' = "start"
              ELSE program' = program /\ pc' = "failed"
    /\ UNCHANGED <<symbol_table, idx, declared_log, output, call, ret,
                   source_code, tokens_list, current_pos, diagnostics>>

NextPipeline ==
    \/ Tokenize
    \/ Retokenize
    \/ ParseProgram
    \/ AnalyzeBegin
    \/ VisitStatement
    \/ AnalyzeReturn
    \/ Generate

SpecPipeline == InitPipeline /\ [][NextPipeline]_vars

-----------------------------------------------------------------------------
(* Claims about the type rules, checked under SpecTypes.                    *)

SpecAssignable(target, value) ==
    \/ target = value
    \/ value = "LNUMBER" /\ target = "NUMBER"
    \/ value \in {"NUMBER", "LNUMBER"} /\ target = "RIEL"

(* C1: for every pair (target, value) of type tags, is_assignable is true  *)
(* exactly when target = value, or value = long-number and target =        *)
(* number, or value is number or long-number and target = real.            *)
C1_AssignableAsSpecified ==
    ret.fn = "is_assignable" => (ret.value <=> SpecAssignable(call.a, call.b))

Rank(t) == CASE t = "NUMBER" -> 1 [] t = "LNUMBER" -> 2 [] t = "RIEL" -> 3

SpecPlus(a, b) ==
    IF IsNumericType(a) /\ IsNumericType(b)
    THEN (IF Rank(a) >= Rank(b) THEN a ELSE b)
    ELSE IF "TEXT" \in {a, b} /\ {a, b} \cap {"VOID", "UNKNOWN"} = {}
    THEN "TEXT"
    ELSE "UNKNOWN"

(* C6: for every pair of operand types, '+' resolves to the most general of *)
(* the two when both are numeric, to text when both are text or when        *)
(* exactly one is text and the other is neither void nor unknown, and to    *)
(* unknown otherwise; the visit of such a node reports unknown as a         *)
(* semantic error naming both operand types, and reports nothing otherwise. *)
C6_PlusResultType ==
    call.op = "PLUS" =>
        /\ ret.fn = "get_binary_op_result_type" =>
                ret.value = SpecPlus(call.a, call.b)
        /\ ret.fn = "visit_binary_op" =>
                /\ ret.value = SpecPlus(call.a, call.b)
                /\ error = IF SpecPlus(call.a, call.b) = "UNKNOWN"
                           THEN [kind |-> "InvalidOperands", op |-> "PLUS",
                                 left_type |-> call.a, right_type |-> call.b]
                           ELSE NoError

(* C6 witness: logic + number has been visited and reported. *)
C6_Witness ==
    /\ ret.fn = "visit_binary_op"
    /\ call = [a |-> "LOGIC", b |-> "NUMBER", op |-> "PLUS"]
    /\ error.kind = "InvalidOperands"

SpecComparable(a, b) ==
    \/ a = b /\ a \notin {"VOID", "UNKNOWN"}
    \/ IsNumericType(a) /\ IsNumericType(b)

(* C7: for every pair of operand types, '?=' resolves to logic exactly when *)
(* the two types are identical and neither void nor unknown, or both are    *)
(* numeric; every other pair is a semantic error; and a says statement of   *)
(* a comparison of two integer literals is typed logic and accepted.        *)
C7_ComparisonResultType ==
    call.op = "QUESTION_EQUALS" =>
        /\ ret.fn = "get_binary_op_result_type" =>
                (ret.value = "LOGIC" <=> SpecComparable(call.a, call.b))
        /\ ret.fn = "visit_binary_op" =>
                IF SpecComparable(call.a, call.b)
                THEN ret.value = "LOGIC" /\ error = NoError
                ELSE error.kind = "InvalidOperands"
        /\ ret.fn = "visit_says_statement" =>
                IF SpecComparable(call.a, call.b)
                THEN ret.value = "LOGIC" /\ error = NoError
                ELSE error.kind = "InvalidOperands"

(* C7 witness: `says (42 ?= 42);` has been analysed and accepted. *)
C7_Witness ==
    /\ ret.fn = "visit_says_statement"
    /\ call = [a |-> "LNUMBER", b |-> "LNUMBER", op |-> "QUESTION_EQUALS"]
    /\ ret.value = "LOGIC"
    /\ error = NoError

-----------------------------------------------------------------------------
(* Claims about one analyze call and the generation after it, checked       *)
(* under Spec.                                                              *)

RECURSIVE ExprNodes(_)
(* Every expression node of the tree of expr. *)
ExprNodes(expr) ==
    IF expr.node = "BinaryOp"
    THEN {expr} \cup ExprNodes(expr.left) \cup ExprNodes(expr.right)
    ELSE {expr}

RECURSIVE StmtExprNodes(_)
(* Every expression node reachable from stmt, at every nesting depth. *)
StmtExprNodes(stmt) ==
    CASE stmt.stmt \in {"VariableDeclaration", "SaysStatement"} ->
            ExprNodes(stmt.expression)
      [] stmt.stmt = "IfStatement" ->
            ExprNodes(stmt.condition) \cup StmtExprNodes(stmt.then_branch)
                \cup StmtExprNodes(stmt.else_branch)
      [] stmt.stmt = "BlockStatement" ->
            UNION {StmtExprNodes(stmt.statements[i]) : i \in DOMAIN stmt.statements}
      [] OTHER -> {}

ProgramExprNodes ==
    UNION {StmtExprNodes(program.statements[i]) : i \in DOMAIN program.statements}

RECURSIVE LeftmostLeaf(_)
(* The first operand visit_and_get_type reaches in expr. *)
LeftmostLeaf(expr) ==
    IF expr.node = "BinaryOp" THEN LeftmostLeaf(expr.left) ELSE expr

(* The top-level statement the next iteration of the loop visits. *)
AtStatement == pc = "visiting" /\ idx <= Len(program.statements)
Current == program.statements[idx]
CurrentAfter == program'.statements[idx]

(* The names the analyzer reported as declared so far. *)
DeclaredNames == {declared_log[k].name : k \in DOMAIN declared_log}

AtFreshDeclaration ==
    /\ AtStatement
    /\ Current.stmt = "VariableDeclaration"
    /\ Current.identifier_name \notin DOMAIN symbol_table

Accepted(name, type) ==
    /\ error' = NoError
    /\ pc' = "visiting"
    /\ name \in DOMAIN symbol_table'
    /\ symbol_table'[name] = Symbol(name, type)
    /\ \A n \in DOMAIN symbol_table : symbol_table'[n] = symbol_table[n]

Rejected(err) ==
    /\ error' = err
    /\ pc' = "failed"
    /\ symbol_table' = symbol_table

(* C2: the visit of a declaration of a fresh name whose declared type is    *)
(* number or long-number and whose initializer is an integer literal types  *)
(* the literal long-number, raises nothing and inserts the name with the    *)
(* declared type.                                                           *)
C2_IntegerLiteralInitializesBothIntegerTypes ==
    [][(/\ AtFreshDeclaration
        /\ Current.var_type \in {"NUMBER", "LNUMBER"}
        /\ Current.expression.node = "IntegerLiteral")
       => /\ CurrentAfter.expression.expr_type = "LNUMBER"
          /\ Accepted(Current.identifier_name, Current.var_type)]_vars

(* C3: the visit of a declaration of a fresh name of declared type real     *)
(* initialised by an integer literal raises nothing and inserts the name;   *)
(* the visit of one of declared type long-number initialised by a float     *)
(* literal raises a type mismatch and inserts nothing.                      *)
C3_AssignabilityNotSymmetric ==
    [][AtFreshDeclaration =>
        /\ (Current.var_type = "RIEL" /\ Current.expression.node = "IntegerLiteral")
              => Accepted(Current.identifier_name, "RIEL")
        /\ (Current.var_type = "LNUMBER" /\ Current.expression.node = "DoubleLiteral")
              => Rejected(TypeMismatchError(Current.identifier_name, "RIEL", "LNUMBER"))
      ]_vars

(* C3 witness: `riel x := 42;` was accepted and `lnumber y := 1.5;` after   *)
(* it was rejected with a type mismatch.                                    *)
C3_Witness ==
    /\ pc = "failed"
    /\ idx = 2
    /\ program.statements[1].stmt = "VariableDeclaration"
    /\ program.statements[1].var_type = "RIEL"
    /\ program.statements[1].expression.node = "IntegerLiteral"
    /\ program.statements[1].identifier_name \in DOMAIN symbol_table
    /\ program.statements[2].stmt = "VariableDeclaration"
    /\ program.statements[2].expression.node = "DoubleLiteral"
    /\ error = TypeMismatchError(program.statements[2].identifier_name, "RIEL", "LNUMBER")

(* C4: no name is reported declared twice in one analyze call, and the      *)
(* visit of a top-level declaration whose name is already in the symbol     *)
(* table raises a redeclaration error, whatever its declared type and       *)
(* initializer, without analysing the initializer and leaving the table,    *)
(* the entry of the first declaration included, as it was.                  *)
C4_NameInsertedAtMostOnce ==
    /\ [](\A j, k \in DOMAIN declared_log :
            declared_log[j].name = declared_log[k].name => j = k)
    /\ [](DeclaredNames = DOMAIN symbol_table)
    /\ [][(/\ AtStatement
           /\ Current.stmt = "VariableDeclaration"
           /\ Current.identifier_name \in DOMAIN symbol_table)
          => /\ Rejected(RedeclarationError(Current.identifier_name))
             /\ declared_log' = declared_log
             /\ program' = program]_vars

(* C4 witness: the second top-level declaration of a name, of another       *)
(* declared type than the first, was rejected as a redeclaration and the    *)
(* entry of the first is in the table.                                      *)
C4_Witness ==
    /\ pc = "failed"
    /\ idx = 2
    /\ program.statements[1].stmt = "VariableDeclaration"
    /\ program.statements[2].stmt = "VariableDeclaration"
    /\ program.statements[1].identifier_name = program.statements[2].identifier_name
    /\ program.statements[1].var_type # program.statements[2].var_type
    /\ error = RedeclarationError(program.statements[2].identifier_name)
    /\ symbol_table[program.statements[1].identifier_name].type
            = program.statements[1].var_type

(* C5: every identifier node that carries a type carries the declared type  *)
(* of a declaration of its name reported before the node was read; the      *)
(* visit of a declaration or says statement that reads a name declared by   *)
(* no earlier successful declaration fails and leaves that read untyped,    *)
(* and when that read is the first operand reached (as x in the initializer *)
(* of x's own declaration) the failure is a use-before-declaration error.   *)
C5_IdentifierTypedAsDeclared ==
    /\ [](\A n \in ProgramExprNodes :
            (n.node = "Identifier" /\ n.expr_type # "UNKNOWN") =>
                \E k \in DOMAIN declared_log :
                    declared_log[k] = [name |-> n.name, type |-> n.expr_type])
    /\ [][(/\ AtStatement
           /\ Current.stmt \in {"VariableDeclaration", "SaysStatement"}
           /\ ~(Current.stmt = "VariableDeclaration"
                    /\ Current.identifier_name \in DOMAIN symbol_table))
          => /\ \A n \in ExprNodes(CurrentAfter.expression) :
                    (n.node = "Identifier" /\ n.expr_type # "UNKNOWN") =>
                        \E k \in DOMAIN declared_log :
                            declared_log[k] = [name |-> n.name, type |-> n.expr_type]
             /\ (\E n \in ExprNodes(Current.expression) :
                    n.node = "Identifier" /\ n.name \notin DeclaredNames)
                  => /\ pc' = "failed"
                     /\ error'.kind \in {"UseBeforeDeclaration", "InvalidOperands"}
                     /\ symbol_table' = symbol_table
                     /\ \A n \in ExprNodes(CurrentAfter.expression) :
                            (n.node = "Identifier" /\ n.name \notin DeclaredNames)
                                => n.expr_type = "UNKNOWN"
             /\ LET first == LeftmostLeaf(Current.expression)
                IN  (first.node = "Identifier" /\ first.name \notin DeclaredNames)
                        => Rejected(UseBeforeDeclarationError(first.name))]_vars

(* C5 witness: after `riel x := 42;`, the initializer x + y of a            *)
(* declaration of y read x as real, the declared type, and failed on y.     *)
C5_Witness ==
    /\ pc = "failed"
    /\ idx = 2
    /\ program.statements[1] =
            VariableDeclarationNode("RIEL", "x", IntegerLiteralNode(42))
    /\ program.statements[2].stmt = "VariableDeclaration"
    /\ program.statements[2].identifier_name = "y"
    /\ program.statements[2].expression.node = "BinaryOp"
    /\ program.statements[2].expression.left =
            [IdentifierNode("x") EXCEPT !.expr_type = "RIEL"]
    /\ program.statements[2].expression.right = IdentifierNode("y")
    /\ error = UseBeforeDeclarationError("y")

(* C8: the visit of a declaration of a fresh name whose initializer is a    *)
(* '?=' comparison the analyzer typed logic raises nothing and inserts the  *)
(* name when the declared type is logic, and for every other declared type  *)
(* raises a type mismatch of logic against the declared type and leaves     *)
(* the name out of the symbol table.                                        *)
C8_ComparisonInitializerNeedsLogic ==
    [][(/\ AtFreshDeclaration
        /\ Current.expression.node = "BinaryOp"
        /\ Current.expression.op_token = "QUESTION_EQUALS"
        /\ CurrentAfter.expression.expr_type = "LOGIC")
       => IF Current.var_type = "LOGIC"
          THEN Accepted(Current.identifier_name, "LOGIC")
          ELSE /\ Rejected(TypeMismatchError(Current.identifier_name, "LOGIC",
                                             Current.var_type))
               /\ Current.identifier_name \notin DOMAIN symbol_table'
               /\ declared_log' = declared_log]_vars

(* C8 witness: `number x := true ?= false;` was rejected with a type        *)
(* mismatch and x is not in the symbol table.                               *)
C8_Witness ==
    /\ pc = "failed"
    /\ idx = 1
    /\ program.statements[1].stmt = "VariableDeclaration"
    /\ program.statements[1].var_type = "NUMBER"
    /\ program.statements[1].expression =
            [BinaryOpNode(BooleanLiteralNode(TRUE), "QUESTION_EQUALS",
                          BooleanLiteralNode(FALSE)) EXCEPT !.expr_type = "LOGIC"]
    /\ error = TypeMismatchError("x", "LOGIC", "NUMBER")
    /\ "x" \notin DOMAIN symbol_table

(* The rendering of an operand of a binary operation the claim describes. *)
SpecOperand(node, operand) ==
    LET code == generate_cpp_for_expression(operand).text
    IN  IF node.op_token = "PLUS" /\ node.expr_type = "TEXT"
               /\ operand.expr_type # "TEXT"
        THEN <<"std::to_string(">> \o code \o <<")">>
        ELSE code

SpecOperator(node) == IF node.op_token = "PLUS" THEN "+" ELSE "=="

(* C9: once analysis succeeded, every binary '+' or '?=' node of the        *)
(* program renders as its two operands around the operator, '?=' as ==,     *)
(* where an operand is wrapped in std::to_string exactly when the node is   *)
(* a '+' typed text and the operand is not typed text.                      *)
C9_StringificationOfPlusOperands ==
    pc \in {"analyzed", "generated"} =>
        \A n \in ProgramExprNodes :
            (n.node = "BinaryOp" /\ n.op_token \in {"PLUS", "QUESTION_EQUALS"}) =>
                generate_cpp_for_expression(n) =
                    GenOk(<<"(">> \o SpecOperand(n, n.left)
                              \o <<" ", SpecOperator(n), " ">>
                              \o SpecOperand(n, n.right) \o <<")">>)

(* C9 witness: `text x := "Hi " + 42;` was generated with only the 42       *)
(* wrapped.                                                                 *)
C9_Witness ==
    /\ pc = "generated"
    /\ Len(program.statements) = 1
    /\ program.statements[1].stmt = "VariableDeclaration"
    /\ program.statements[1].var_type = "TEXT"
    /\ generate_cpp_for_expression(program.statements[1].expression) =
            GenOk(<<"(", "\"", "H", "i", " ", "\"", " ", "+", " ",
                    "std::to_string(", "42", "LL", ")", ")">>)

ValidTypes == {"NUMBER", "LNUMBER", "TEXT", "LOGIC", "RIEL"}

(* C10: after analyze returned without error every expression node          *)
(* reachable from the program carries a type tag that is number,            *)
(* long-number, text, logic or real.                                        *)
C10_AnalysedTreeFullyTyped ==
    pc \in {"analyzed", "generated"} =>
        \A n \in ProgramExprNodes : n.expr_type \in ValidTypes

(* C10 witness: analyze returned on a program with an if statement whose    *)
(* condition is a binary operation and whose then branch reads a name.      *)
C10_Witness ==
    /\ pc = "analyzed"
    /\ \E i \in DOMAIN program.statements :
            /\ program.statements[i].stmt = "IfStatement"
            /\ program.statements[i].condition.node = "BinaryOp"
            /\ \E n \in StmtExprNodes(program.statements[i].then_branch) :
                    n.node = "Identifier"

-----------------------------------------------------------------------------
(* Claims about repeated calls of analyze, checked under SpecRuns.          *)

CallEnded == pc \in {"analyzed", "failed"}

(* C11: a call of analyze on the tree an accepted call annotated raises     *)
(* nothing, returns, and leaves every node's type tag as that first call    *)
(* left it.                                                                 *)
C11_AnalysisIdempotentOnTags ==
    (call.again = "same" /\ call.previous = "analyzed") =>
        /\ pc # "failed"
        /\ error = NoError
        /\ program = call.program

(* C11 witness: the second call on an accepted tree that holds a binary     *)
(* operation over a declared name has returned.                             *)
C11_Witness ==
    /\ call.again = "same"
    /\ call.previous = "analyzed"
    /\ pc = "analyzed"
    /\ \E n \in ProgramExprNodes :
            n.node = "BinaryOp" /\ n.left.node = "Identifier" /\ n.expr_type = "TEXT"

(* C12: whatever calls came before on the same object, a call of analyze    *)
(* on a program ends as the call of a freshly constructed analyzer on that  *)
(* program ends: same acceptance or error, same annotated tree, same table. *)
C12_RunsIndependent ==
    CallEnded =>
        LET fresh == analyze(call.program)
        IN  /\ error = fresh.err
            /\ (pc = "analyzed") <=> (fresh.err = NoError)
            /\ program.statements = fresh.stmts
            /\ symbol_table = fresh.table
            /\ declared_log = fresh.log

(* C12 witness: after a call that threw and left names in the table, a call *)
(* on another program that reads one of those names has ended.              *)
C12_Witness ==
    /\ call.again = "other"
    /\ call.previous = "failed"
    /\ "y" \in call.leftover
    /\ CallEnded
    /\ call.program.statements[1] = SaysStatementNode(IdentifierNode("y"))
    /\ error = UseBeforeDeclarationError("y")

-----------------------------------------------------------------------------
(* Claims about the lexer and the parser, checked under SpecPipeline.       *)

Kinds(tokens) == [i \in 1..Len(tokens) |-> tokens[i].type]

(* The lexer wrote no error: no unknown character, no open string literal. *)
LexerAccepted == diagnostics = <<>>

(* C13: for every source text the lexer accepts, tokenizing the token      *)
(* texts joined with single spaces yields the same sequence of token kinds *)
(* as the first tokenization, string literals with escapes included.       *)
C13_TokenKindsRoundTrip ==
    (pc = "relexed" /\ LexerAccepted) => Kinds(ret.tokens) = Kinds(tokens_list)

(* The lexer met a character it has no rule for. *)
StoppedAtUnknown ==
    \E i \in 1..Len(diagnostics) : diagnostics[i].kind = "UnknownCharacter"

Last(seq) == seq[Len(seq)]

(* C14 as stated: tokenize stops at the first unrecognized character or  *)
(* at the end of the input and the last element it returns is that       *)
(* terminal token, the unknown token when it stopped at an unrecognized  *)
(* character and the end-of-file token otherwise.                        *)
C14_TerminalTokenLast ==
    pc = "lexed" =>
        Last(tokens_list).type = (IF StoppedAtUnknown THEN "UNKNOWN" ELSE "END_OF_FILE")

(* C14, amended: tokenize stops at the first unrecognized character or at *)
(* the end of the input; the sequence it returns always ends with the one *)
(* end-of-file token; when it stopped at an unrecognized character the    *)
(* unknown token holding that character is the element just before, the   *)
(* only unknown token, and no character after it has any effect on the    *)
(* tokens; otherwise the whole input was scanned.                         *)
C14_UnknownThenEndOfFile ==
    pc = "lexed" =>
        LET n == Len(tokens_list)
        IN  /\ n >= 1
            /\ tokens_list[n] = EndOfFileToken
            /\ \A i \in 1..n - 1 : tokens_list[i].type # "END_OF_FILE"
            /\ \A i \in 1..n - 2 : tokens_list[i].type # "UNKNOWN"
            /\ StoppedAtUnknown <=> (n >= 2 /\ tokens_list[n - 1].type = "UNKNOWN")
            /\ StoppedAtUnknown =>
                  /\ current_pos \in 1..Len(source_code)
                  /\ tokens_list[n - 1].text = <<source_code[current_pos]>>
                  /\ tokens_list = tokenize(SubSeq(source_code, 1, current_pos)).tokens
            /\ ~StoppedAtUnknown => current_pos = Len(source_code)

(* tokenize stopped at an unrecognized character that other tokens precede *)
(* and other characters follow.                                            *)
C14_Witness ==
    /\ pc = "lexed"
    /\ StoppedAtUnknown
    /\ Len(tokens_list) >= 3
    /\ current_pos < Len(source_code)
    /\ \E i \in current_pos + 1..Len(source_code) : isalpha(source_code[i])

(* C15: when the lexer meets a character outside its token rules, a lone *)
(* ':' or '?' included and wherever it stands, lexing followed by        *)
(* parse_program ends in an error and no program tree is returned.       *)
C15_UnknownCharacterFatal ==
    StoppedAtUnknown =>
        /\ pc \in {"lexed", "relexed", "failed"}
        /\ program = NullProgram
        /\ pc = "failed" => error # NoError

(* parse_program threw on a lone ':' or '?' met where an operand was due, *)
(* after tokens the parser had accepted.                                  *)
C15_Witness ==
    /\ pc = "failed"
    /\ StoppedAtUnknown
    /\ diagnostics[1].char \in {":", "?"}
    /\ error.kind = "UnexpectedTokenForFactor"
    /\ current_token_idx >= 3

(* The lexer reported a string literal left open at the end of the input. *)
UnterminatedString ==
    \E i \in 1..Len(diagnostics) : diagnostics[i].kind = "UnterminatedString"

(* C16: a source with an opening double quote that no closing quote      *)
(* matches before the end of the input never gets through the parser: the *)
(* pipeline ends in an error, no program is analysed and no target text   *)
(* is generated.                                                          *)
C16_UnterminatedStringFatal ==
    UnterminatedString =>
        /\ pc \in {"lexed", "relexed", "failed"}
        /\ program = NullProgram
        /\ output = <<>>
        /\ pc = "failed" => error # NoError

(* The parser took the open string literal of a says statement for an *)
(* operand and then missed the semicolon at the end of the input.      *)
C16_Witness ==
    /\ pc = "failed"
    /\ UnterminatedString
    /\ \E i \in 1..Len(tokens_list) - 2 :
          /\ tokens_list[i].type = "KEYWORD_SAYS"
          /\ tokens_list[i + 1].type = "STRING_LITERAL"
          /\ tokens_list[i + 2].type = "END_OF_FILE"
    /\ error = [kind |-> "ExpectedToken", expected |-> "SEMICOLON", got |-> "END_OF_FILE"]

(* The source is one says statement, parsed: its expression lies between *)
(* the says keyword and the semicolon.                                    *)
ParsedSays ==
    /\ pc = "start"
    /\ Len(program.statements) = 1
    /\ program.statements[1].stmt = "SaysStatement"
    /\ tokens_list[1].type = "KEYWORD_SAYS"

ExpressionTokens == SubSeq(tokens_list, 2, Len(tokens_list) - 2)

(* The operators of one kind that no parenthesis encloses. *)
TopLevel(toks, type) ==
    {k \in 1..Len(toks) :
        /\ toks[k].type = type
        /\ Cardinality({i \in 1..k : toks[i].type = "LPAREN"})
              = Cardinality({i \in 1..k : toks[i].type = "RPAREN"})}

Greatest(S) == CHOOSE k \in S : \A j \in S : j <= k

RECURSIVE Grouped(_)
(* The tree the grammar prescribes: split at the last ?= outside           *)
(* parentheses, failing that at the last + outside parentheses; a          *)
(* parenthesised expression stands for what it encloses.                   *)
Grouped(toks) ==
    LET split(k) == BinaryOpNode(Grouped(SubSeq(toks, 1, k - 1)), toks[k].type,
                                 Grouped(SubSeq(toks, k + 1, Len(toks))))
    IN  IF TopLevel(toks, "QUESTION_EQUALS") # {}
        THEN split(Greatest(TopLevel(toks, "QUESTION_EQUALS")))
        ELSE IF TopLevel(toks, "PLUS") # {}
        THEN split(Greatest(TopLevel(toks, "PLUS")))
        ELSE IF toks[1].type = "LPAREN"
        THEN Grouped(SubSeq(toks, 2, Len(toks) - 1))
        ELSE parse_factor(toks, 0).node

(* C17: ?= has lower precedence than +, both are left-associative, and a *)
(* parenthesised sub-expression is a single factor: the tree of every    *)
(* parsed expression is the one obtained by splitting at the last ?=     *)
(* outside parentheses, else at the last + outside parentheses.          *)
C17_PrecedenceAndAssociativity ==
    ParsedSays => program.statements[1].expression = Grouped(ExpressionTokens)

(* a + b ?= c + d was parsed to ((a + b) ?= (c + d)). *)
C17_Witness ==
    /\ ParsedSays
    /\ Kinds(ExpressionTokens)
          = <<"IDENTIFIER", "PLUS", "IDENTIFIER", "QUESTION_EQUALS",
              "IDENTIFIER", "PLUS", "IDENTIFIER">>
    /\ program.statements[1].expression
          = BinaryOpNode(BinaryOpNode(IdentifierNode("a"), "PLUS", IdentifierNode("b")),
                         "QUESTION_EQUALS",
                         BinaryOpNode(IdentifierNode("c"), "PLUS", IdentifierNode("d")))

(* Where a use declaration or a statement starts: at the first token and *)
(* after every semicolon.                                                 *)
Starts ==
    {k \in 1..Len(tokens_list) - 1 : k = 1 \/ tokens_list[k - 1].type = "SEMICOLON"}

(* The starts after the leading block of use declarations. *)
StatementStarts ==
    {k \in Starts : \E j \in Starts : j <= k /\ tokens_list[j].type # "KEYWORD_USE"}

(* C18: after the leading block of use declarations parse_program accepts *)
(* a top-level statement only when its first token is one of the five     *)
(* type keywords or says: a program is returned only if every statement   *)
(* starts so, and any other leading token, a use after a statement        *)
(* included, ends parse_program in an error with no program.              *)
C18_TopLevelStatementStart ==
    /\ program # NullProgram =>
          \A k \in StatementStarts :
              tokens_list[k].type
                  \in {"KEYWORD_NUMBER", "KEYWORD_LNUMBER", "KEYWORD_TEXT",
                       "KEYWORD_LOGIC", "KEYWORD_RIEL", "KEYWORD_SAYS"}
    /\ (pc = "failed" /\ program = NullProgram) => error # NoError

(* parse_program threw on a use declaration that follows a statement. *)
C18_Witness ==
    /\ pc = "failed"
    /\ program = NullProgram
    /\ error = [kind |-> "UnexpectedTokenAtTopLevel", got |-> "KEYWORD_USE"]
    /\ current_token_idx >= 3
    /\ current_token_idx + 1 \in StatementStarts

(* The if statement the source SourceIf stands for. *)
IfElseTree ==
    IfStatementNode(
        BinaryOpNode(IntegerLiteralNode(1), "QUESTION_EQUALS", IntegerLiteralNode(1)),
        SaysStatementNode(StringLiteralNode(<<"y", "e", "s">>)),
        SaysStatementNode(StringLiteralNode(<<"n", "o">>)))

(* C19: the source if (1 ?= 1) says "yes"; else says "no"; compiles: it  *)
(* is parsed to one if statement with the else branch attached to it,    *)
(* and the text generated for it is the text of that if statement, with  *)
(* the condition in parentheses and a brace block for each branch.       *)
C19_IfElseCompiles ==
    source_code = SourceIf =>
        /\ pc # "failed"
        /\ pc = "start" => program = ProgramNode(<<>>, <<IfElseTree>>)
        /\ pc = "generated" =>
              /\ Len(program.statements) = 1
              /\ program.statements[1].stmt = "IfStatement"
              /\ program.statements[1].else_branch # NullStatement
              /\ output = generate(program).text

RECURSIVE BlankFrom(_, _)
(* From its character i on, src holds whitespace and // comments only. *)
BlankFrom(src, i) ==
    IF i > Len(src) THEN TRUE
    ELSE IF isspace(src[i]) THEN BlankFrom(src, i + 1)
    ELSE IF src[i] = "/" /\ i < Len(src) /\ src[i + 1] = "/"
    THEN LET ends == {j \in i..Len(src) : src[j] = "\n"}
         IN  ends = {} \/ BlankFrom(src, CHOOSE j \in ends : \A k \in ends : j <= k)
    ELSE FALSE

(* C20: for the empty source, and for any source of whitespace and        *)
(* comments only, the pipeline succeeds end to end: the tokens are the    *)
(* single end-of-file token, the program has no use declaration and no    *)
(* statement, analysis accepts it, and the generated text is an entry     *)
(* point whose body is the return alone, with no include line and no      *)
(* boolalpha prologue.                                                    *)
C20_EmptySourceCompiles ==
    (pc # "lex" /\ BlankFrom(source_code, 1)) =>
        /\ tokens_list = <<EndOfFileToken>>
        /\ diagnostics = <<>>
        /\ pc # "failed"
        /\ error = NoError
        /\ pc \notin {"lexed", "relexed"} => program = ProgramNode(<<>>, <<>>)
        /\ pc = "generated" =>
              output = <<"// Generated by HumanScript Compiler\n\n", "int main() {\n",
                         "    return 0;\n", "}\n">>

(* A source of two comments and whitespace went through the whole *)
(* pipeline.                                                      *)
C20_Witness ==
    /\ pc = "generated"
    /\ BlankFrom(source_code, 1)
    /\ Cardinality({i \in 1..Len(source_code) : source_code[i] = "/"}) = 4
    /\ \E i \in 1..Len(source_code) : source_code[i] = "@"
    /\ program = ProgramNode(<<>>, <<>>)
    /\ Len(output) = 4

-----------------------------------------------------------------------------
(* Include inference of generate. *)

InferredHeaders == {"iostream", "string", "iomanip"}

(* The lines generate writes for a header no use declaration brought in. *)
AutoLines(header) ==
    CASE header = "iostream" -> {"#include <iostream> // Auto-included for 'says'\n"}
      [] header = "iomanip" -> {"#include <iomanip>  // For std::boolalpha with 'says'\n"}
      [] header = "string" ->
            {"#include <string> // Auto-included for text type or string operations\n",
             "#include <string>   // For std::to_string with 'says'\n"}

AutoCount(header) ==
    Cardinality({i \in 1..Len(output) : output[i] \in AutoLines(header)})

UsedHeaders == {program.use_declarations[i] : i \in 1..Len(program.use_declarations)}

Includes(header) ==
    \E i \in 1..Len(output) :
        output[i] \in AutoLines(header) \cup {"#include <" \o header \o ">\n"}

TopLevelSays ==
    \E i \in 1..Len(program.statements) : program.statements[i].stmt = "SaysStatement"

TopLevelText ==
    \E i \in 1..Len(program.statements) :
        LET st == program.statements[i]
        IN  \/ st.stmt = "VariableDeclaration" /\ st.var_type = "TEXT"
            \/ st.stmt \in {"VariableDeclaration", "SaysStatement"}
               /\ st.expression.expr_type = "TEXT"

(* C21: in every generated text each of the iostream, string and iomanip   *)
(* includes is auto-emitted at most once and not at all when a use         *)
(* declaration names the header; a top-level says brings all three         *)
(* includes into the text and a text-typed top-level declaration or says   *)
(* operand brings the string include.                                      *)
C21_InferredIncludes ==
    pc = "generated" =>
        /\ \A h \in InferredHeaders :
              /\ AutoCount(h) <= 1
              /\ h \in UsedHeaders => AutoCount(h) = 0
        /\ TopLevelSays => \A h \in InferredHeaders : Includes(h)
        /\ TopLevelText => Includes("string")

C21_Witness ==
    /\ pc = "generated"
    /\ TopLevelSays
    /\ TopLevelText
    /\ UsedHeaders = {"string"}
    /\ AutoCount("iostream") = 1
    /\ AutoCount("iomanip") = 1
    /\ AutoCount("string") = 0

(* C22: the generator never raises after a successful analysis: whenever   *)
(* generate runs on a parsed and analysed program it returns a text, with  *)
(* none of its four errors.                                                *)
C22_GenerateNeverFails ==
    [][Generate => /\ pc' = "generated"
                   /\ error' = NoError
                   /\ output' # <<>>]_vars

C22_Witness ==
    /\ pc = "generated"
    /\ error = NoError
    /\ \E i \in 1..Len(program.statements) :
          /\ program.statements[i].stmt = "VariableDeclaration"
          /\ program.statements[i].var_type = "RIEL"
    /\ \E i \in 1..Len(program.statements) :
          /\ program.statements[i].stmt = "VariableDeclaration"
          /\ program.statements[i].var_type = "LOGIC"

-----------------------------------------------------------------------------
(* Order of analysis. *)

RECURSIVE Steps(_)
(* The declarations, says statements and if conditions of stmt in document *)
(* order, at every nesting depth.                                          *)
Steps(stmt) ==
    CASE stmt.stmt = "VariableDeclaration" ->
            <<[kind |-> "decl", name |-> stmt.identifier_name, expr |-> stmt.expression]>>
      [] stmt.stmt = "SaysStatement" ->
            <<[kind |-> "says", name |-> "", expr |-> stmt.expression]>>
      [] stmt.stmt = "IfStatement" ->
            <<[kind |-> "cond", name |-> "", expr |-> stmt.condition]>>
                \o Steps(stmt.then_branch) \o Steps(stmt.else_branch)
      [] stmt.stmt = "BlockStatement" ->
            Flatten([i \in 1..Len(stmt.statements) |-> Steps(stmt.statements[i])])
      [] OTHER -> <<>>

ProgramSteps ==
    Flatten([i \in 1..Len(program.statements) |-> Steps(program.statements[i])])

(* No identifier and no operation of expr carries a type: expr is as the *)
(* parser built it.                                                      *)
Untouched(expr) ==
    \A n \in ExprNodes(expr) :
        n.node \in {"Identifier", "BinaryOp"} => n.expr_type = "UNKNOWN"

Typed(expr) == \A n \in ExprNodes(expr) : n.expr_type # "UNKNOWN"

(* Within expr nothing on the right of an operation was reached before its *)
(* left operand was typed, and no operation before both its operands.      *)
LeftToRight(expr) ==
    \A n \in ExprNodes(expr) :
        n.node = "BinaryOp" =>
            /\ ~Untouched(n.right) => Typed(n.left)
            /\ n.expr_type # "UNKNOWN" => Typed(n.left) /\ Typed(n.right)

DeclaredBefore(steps, k) ==
    {steps[j].name : j \in {i \in 1..(k - 1) : steps[i].kind = "decl"}}

(* Analysis stopped in step k: the steps before it are done, the steps   *)
(* after it untouched.                                                   *)
StoppedAt(steps, k) ==
    /\ \A j \in 1..(k - 1) : Typed(steps[j].expr)
    /\ \A j \in (k + 1)..Len(steps) : Untouched(steps[j].expr)
    /\ LeftToRight(steps[k].expr)
    /\ ~Typed(steps[k].expr) \/ error.kind \notin {"UseBeforeDeclaration", "InvalidOperands"}
    /\ DOMAIN symbol_table = DeclaredBefore(steps, k)
    /\ error.kind = "Redeclaration" =>
          /\ steps[k].kind = "decl"
          /\ steps[k].name = error.name
          /\ error.name \in DeclaredBefore(steps, k)
          /\ Untouched(steps[k].expr)

(* C23: analysis is fail-fast in document order: when it fails there is   *)
(* one failing statement; every statement before it has been analysed,    *)
(* no statement after it has been visited (its nodes are unannotated),    *)
(* a redeclaration is found before the initializer is looked at, a left   *)
(* operand is typed before the right one is reached, and the symbol table *)
(* holds exactly the names declared before the failing statement. While   *)
(* the loop runs the statements not yet reached are untouched.            *)
C23_FailFastInOrder ==
    /\ pc = "failed" =>
          \E k \in 1..Len(ProgramSteps) : StoppedAt(ProgramSteps, k)
    /\ pc \in {"visiting", "failed"} =>
          /\ \A j \in 1..(idx - 1) :
                \A n \in StmtExprNodes(program.statements[j]) : Typed(n)
          /\ \A j \in (idx + 1)..Len(program.statements) :
                \A n \in StmtExprNodes(program.statements[j]) : Untouched(n)

C23_Witness ==
    /\ pc = "failed"
    /\ error.kind = "Redeclaration"
    /\ idx < Len(program.statements)
    /\ program.statements[idx].stmt = "IfStatement"
    /\ program.statements[idx].else_branch.stmt = "VariableDeclaration"
    /\ program.statements[idx].else_branch.identifier_name = error.name
    /\ DOMAIN symbol_table = {error.name}

-----------------------------------------------------------------------------
(* if statements and the flat symbol table. *)

RECURSIVE DeclNames(_)
(* The names stmt declares, at every nesting depth. *)
DeclNames(stmt) ==
    CASE stmt.stmt = "VariableDeclaration" -> {stmt.identifier_name}
      [] stmt.stmt = "IfStatement" ->
            DeclNames(stmt.then_branch) \cup DeclNames(stmt.else_branch)
      [] stmt.stmt = "BlockStatement" ->
            UNION {DeclNames(stmt.statements[i]) : i \in DOMAIN stmt.statements}
      [] OTHER -> {}

AtIf == AtStatement /\ Current.stmt = "IfStatement"

(* The then branch of the current if was analysed without an error. *)
ThenPassed ==
    /\ CurrentAfter.condition.expr_type = "LOGIC"
    /\ DeclNames(Current.then_branch) \subseteq DOMAIN symbol_table'
    /\ DeclNames(Current.then_branch) \cap DOMAIN symbol_table = {}
    /\ \A n \in StmtExprNodes(CurrentAfter.then_branch) : n.expr_type # "UNKNOWN"

(* C24: an if statement is accepted only with a condition of type logic;  *)
(* its branches and blocks work on the one symbol table: the names the    *)
(* then branch declares are known in the else branch and stay in the      *)
(* table after the if, and a name declared in both branches, or in a      *)
(* branch and again after the if, is a redeclaration error.               *)
C24_IfSharesFlatTable ==
    [][AtStatement =>
        /\ (AtIf /\ error' = NoError) =>
              /\ CurrentAfter.condition.expr_type = "LOGIC"
              /\ DeclNames(Current) \subseteq DOMAIN symbol_table'
        /\ (AtIf /\ CurrentAfter.condition.expr_type # "LOGIC"
                 /\ error'.kind # "IfConditionNotLogic") =>
              /\ error'.kind \in {"UseBeforeDeclaration", "InvalidOperands"}
              /\ CurrentAfter.then_branch = Current.then_branch
        /\ (AtIf /\ ThenPassed) =>
              /\ ~(/\ error'.kind = "UseBeforeDeclaration"
                   /\ error'.name \in DeclNames(Current.then_branch))
              /\ (/\ Current.else_branch.stmt = "SaysStatement"
                  /\ Current.else_branch.expression.node = "Identifier"
                  /\ Current.else_branch.expression.name
                        \in DeclNames(Current.then_branch)) =>
                    /\ error' = NoError
                    /\ CurrentAfter.else_branch.expression.expr_type =
                          symbol_table'[Current.else_branch.expression.name].type
              /\ DeclNames(Current.then_branch) \cap DeclNames(Current.else_branch) # {} =>
                    /\ error'.kind = "Redeclaration"
                    /\ error'.name \in DeclNames(Current.then_branch)
        /\ (/\ Current.stmt = "VariableDeclaration"
            /\ \E j \in 1..(idx - 1) :
                  /\ program.statements[j].stmt = "IfStatement"
                  /\ Current.identifier_name \in DeclNames(program.statements[j])) =>
              error' = RedeclarationError(Current.identifier_name)]_vars

(* A name declared in the then branch was redeclared in the else branch. *)
C24_Witness ==
    /\ pc = "failed"
    /\ error.kind = "Redeclaration"
    /\ program.statements[idx].stmt = "IfStatement"
    /\ error.name \in DeclNames(program.statements[idx].then_branch)
    /\ error.name \in DeclNames(program.statements[idx].else_branch)
    /\ program.statements[idx].then_branch.stmt = "BlockStatement"
    /\ DOMAIN symbol_table = {error.name}

-----------------------------------------------------------------------------
(* Integer literals. *)

(* The digits the source starts with. *)
LeadingDigits(src) ==
    LET n == IF \E i \in 1..Len(src) : ~isdigit(src[i])
             THEN (CHOOSE i \in 1..Len(src) :
                      ~isdigit(src[i]) /\ \A j \in 1..(i - 1) : isdigit(src[j])) - 1
             ELSE Len(src)
    IN  SubSeq(src, 1, n)

(* a < b for digit runs without leading zeros. *)
DigitsBelow(a, b) ==
    \/ Len(a) < Len(b)
    \/ /\ Len(a) = Len(b)
       /\ \E i \in 1..Len(a) :
             /\ DigitValue(a[i]) < DigitValue(b[i])
             /\ \A j \in 1..(i - 1) : a[j] = b[j]

(* The payload and the diagnostic the description gives a digit run. *)
IntegerPayload(digits) ==
    LET d == StripZeros(digits)
    IN  IF d = IntMaxDigits \/ DigitsBelow(d, IntMaxDigits)
        THEN [kind |-> "int", v |-> DigitsValue(d)]
        ELSE IF d = LLongMaxDigits \/ DigitsBelow(d, LLongMaxDigits)
        THEN [kind |-> "long long", v |-> d]
        ELSE [kind |-> "long long", v |-> <<"0">>]

OutOfRange(digits) ==
    LET d == StripZeros(digits)
    IN  d # LLongMaxDigits /\ ~DigitsBelow(d, LLongMaxDigits)

(* C25: a digit run becomes one integer-literal token with the run as its  *)
(* text and its value as payload, a 32-bit integer when it fits, else a    *)
(* 64-bit integer when it fits, else 0 with a diagnostic; the lexer goes   *)
(* on to the tokens after it in every case.                                *)
C25_IntegerLiteralPayload ==
    pc = "lexed" =>
        /\ \A i \in 1..Len(tokens_list) :
              tokens_list[i].type = "INTEGER_LITERAL" =>
                  /\ tokens_list[i].text # <<>>
                  /\ \A j \in 1..Len(tokens_list[i].text) : isdigit(tokens_list[i].text[j])
                  /\ tokens_list[i].value = IntegerPayload(tokens_list[i].text)
                  /\ i < Len(tokens_list)
                  /\ OutOfRange(tokens_list[i].text) <=>
                        \E k \in 1..Len(diagnostics) :
                            diagnostics[k] = [kind |-> "IntegerOutOfRange",
                                              text |-> tokens_list[i].text]
        /\ LET run == LeadingDigits(source_code)
               rest == SubSeq(source_code, Len(run) + 1, Len(source_code))
           IN  (/\ run # <<>>
                /\ ~(Len(rest) >= 2 /\ rest[1] = "." /\ isdigit(rest[2]))) =>
                   /\ tokens_list[1].type = "INTEGER_LITERAL"
                   /\ tokens_list[1].text = run
                   /\ rest = <<" ", "n">> =>
                         Kinds(tokens_list) = <<"INTEGER_LITERAL", "IDENTIFIER", "END_OF_FILE">>

(* A run above the long long range was lexed and the lexer went on. *)
C25_Witness ==
    /\ pc = "lexed"
    /\ Len(tokens_list) = 3
    /\ tokens_list[1].type = "INTEGER_LITERAL"
    /\ Len(tokens_list[1].text) = 20
    /\ tokens_list[1].value = [kind |-> "long long", v |-> <<"0">>]
    /\ tokens_list[2].type = "IDENTIFIER"
    /\ Len(diagnostics) = 1

-----------------------------------------------------------------------------
(* Headers the generated text relies on. *)

CallsToString == \E i \in 1..Len(output) : output[i] = "std::to_string("

(* C26: a generated text that calls std::to_string has an include of     *)
(* <string>, also when the program has no says statement and its only    *)
(* text value is an operand inside a declaration of another type.        *)
C26_ToStringHasStringInclude ==
    (pc = "generated" /\ CallsToString) => Includes("string")

PrintsToCout == \E i \in 1..Len(output) : output[i] = "std::cout << ("

BoolalphaPrologue ==
    \E i \in 1..(Len(output) - 1) :
        /\ output[i] = "int main() {\n"
        /\ output[i + 1] = "    std::cout << std::boolalpha; // Print booleans as true/false\n"

(* C27: a generated text with a std::cout statement has the include of   *)
(* <iostream> and, first in main, the std::boolalpha statement, also     *)
(* when every says statement of the program is inside an if branch or a  *)
(* block and none is a top-level statement.                              *)
C27_CoutHasIostream ==
    (pc = "generated" /\ PrintsToCout) => (Includes("iostream") /\ BoolalphaPrologue)

-----------------------------------------------------------------------------
(* Shape of the token sequence and progress of the front end. *)

TokensOfType(type) == {i \in 1..Len(tokens_list) : tokens_list[i].type = type}

(* C28: the sequence tokenize returns is never empty, holds exactly one   *)
(* end-of-file token, its last element, and at most one unknown token,    *)
(* which stands just before the end-of-file token.                        *)
C28_TokenSequenceShape ==
    pc # "lex" =>
        /\ tokens_list # <<>>
        /\ TokensOfType("END_OF_FILE") = {Len(tokens_list)}
        /\ Cardinality(TokensOfType("UNKNOWN")) <= 1
        /\ TokensOfType("UNKNOWN") \subseteq {Len(tokens_list) - 1}

C28_Witness ==
    /\ pc = "lexed"
    /\ Len(tokens_list) >= 4
    /\ tokens_list[1].type = "KEYWORD_USE"
    /\ TokensOfType("UNKNOWN") = {Len(tokens_list) - 1}
    /\ \E i \in 1..Len(source_code) : source_code[i] = "@"
    /\ current_pos < Len(source_code)

(* The outcome r of a parsing step begun at cur moved the cursor on or is *)
(* an exception.                                                          *)
Progress(r, cur) == r.err # NoError \/ r.cur > cur

(* C29: lexing and parsing terminate. A call of get_next_token at any    *)
(* position returns the end-of-file token or ends at a later position,   *)
(* so tokenize returns at most one token for each character and the      *)
(* end-of-file token; an iteration of each loop of parse_program,        *)
(* parse_header_path, parse_comparison and parse_addition, begun at any  *)
(* token, consumes a token or throws, and parse_program returns a        *)
(* program or throws.                                                    *)
C29_FrontEndProgress ==
    /\ \A pos \in 0..Len(source_code) :
          LET r == get_next_token(source_code, pos)
          IN  /\ r.token.type = "END_OF_FILE" \/ r.pos > pos
              /\ r.pos <= Len(source_code)
    /\ pc # "lex" =>
          /\ Len(tokens_list) <= Len(source_code) + 1
          /\ \A cur \in 0..(Len(tokens_list) - 1) :
                LET type == peek_token(tokens_list, cur).type
                    next == advance_token(tokens_list, cur).cur
                IN  /\ type = "KEYWORD_USE" =>
                          Progress(parse_use_declaration(tokens_list, cur), cur)
                    /\ starts_statement(type) =>
                          Progress(parse_statement(tokens_list, cur), cur)
                    /\ type \notin {"GT", "END_OF_FILE"} =>
                          /\ next > cur
                          /\ Progress(parse_header_path(tokens_list, cur, <<>>), cur)
                    /\ type = "QUESTION_EQUALS" =>
                          /\ next > cur
                          /\ Progress(parse_addition(tokens_list, next), cur)
                    /\ type = "PLUS" =>
                          /\ next > cur
                          /\ Progress(parse_factor(tokens_list, next), cur)
          /\ LET r == parse_program(tokens_list)
             IN  /\ r.cur \in 0..Len(tokens_list)
                 /\ r.err = NoError => Len(r.node.statements) <= Len(tokens_list)

(* A program with a use declaration, an addition and two statements was *)
(* lexed and parsed to its end.                                         *)
C29_Witness ==
    /\ pc = "start"
    /\ program # NullProgram
    /\ Len(program.use_declarations) = 1
    /\ Len(program.statements) = 2
    /\ TokensOfType("PLUS") # {}
    /\ Len(tokens_list) = 18
    /\ Len(source_code) > Len(tokens_list)

(* The 0-based index of the end-of-file token, the last of tokens_list. *)
EndOfFileIndex == Len(tokens_list) - 1

(* C30: the parser's cursor never passes the end-of-file token that ends *)
(* the sequence tokenize made: no parsing function, begun at any token,  *)
(* leaves the cursor behind it, whether it returns or throws, so the     *)
(* token is never consumed; and when parse_program returns a program     *)
(* the cursor is on that token, every token before it consumed.          *)
C30_CursorWithinTokens ==
    pc # "lex" =>
        /\ current_token_idx <= EndOfFileIndex
        /\ program # NullProgram =>
              /\ current_token_idx = EndOfFileIndex
              /\ peek_token(tokens_list, current_token_idx) = EndOfFileToken
        /\ \A cur \in 0..EndOfFileIndex :
              /\ \A type \in TokenType \ {"END_OF_FILE"} :
                    consume(tokens_list, cur, type).cur <= EndOfFileIndex
              /\ tokens_list[cur + 1].type # "END_OF_FILE" =>
                    advance_token(tokens_list, cur).cur <= EndOfFileIndex
              /\ parse_factor(tokens_list, cur).cur <= EndOfFileIndex
              /\ parse_addition(tokens_list, cur).cur <= EndOfFileIndex
              /\ parse_comparison(tokens_list, cur).cur <= EndOfFileIndex
              /\ parse_header_path(tokens_list, cur, <<>>).cur <= EndOfFileIndex
              /\ parse_use_declaration(tokens_list, cur).cur <= EndOfFileIndex
              /\ starts_statement(tokens_list[cur + 1].type) =>
                    parse_statement(tokens_list, cur).cur <= EndOfFileIndex
        /\ LET r == parse_program(tokens_list)
           IN  IF r.err = NoError THEN r.cur = EndOfFileIndex ELSE r.cur <= EndOfFileIndex

(* A program of three declarations was returned with the cursor on the *)
(* end-of-file token.                                                  *)
C30_Witness ==
    /\ pc = "start"
    /\ program # NullProgram
    /\ Len(program.statements) = 3
    /\ current_token_idx = 15
    /\ Len(tokens_list) = 16

=============================================================================
